---- MODULE Spec2Model ----
(***************************************************************************)
(* ErikKernel, x86_64: the scheduler (src/arch/x86_64/task.c), the IPC     *)
(* system calls (src/arch/x86_64/syscall.c) and the linked list they are   *)
(* built on (list.c), run by several cores.                                *)
(*                                                                         *)
(* Heap objects (struct thread, struct process) are numbered in order of   *)
(* allocation; 0 is NULL.  What a freed object holds is not followed, and   *)
(* neither is a core past its first use of one.  A section of code that    *)
(* runs with task_lock held is one step after the step that takes the      *)
(* lock; code that runs without the lock is cut where it publishes an      *)
(* object other cores can reach.                                           *)
(***************************************************************************)
EXTENDS Integers, Sequences, FiniteSets, TLC

\* ------------------------------------------------------------- bounds
MaxThreads == 3     \* struct thread objects ever allocated
MaxProcs == 2       \* struct process objects ever allocated
MaxLength == 2      \* a length field that only grows is followed up to here
MaxFailures == 1    \* times malloc returns NULL

Cores == {1, 2}

\* ---------------------------------------------------------- constants
\* Addresses are counted in units that keep the order of the real ones:
\* everything at or above KERNEL_BASE is the kernel's.
KERNEL_BASE == 100

SYSCALL_PARAM_ARRAY == 0
SYSCALL_PARAM_PRIMITIVE == 1

SYSCALL_LOCAL_NAME_SERVICE == 0
SYSCALL_GLOBAL_NAME_SERVICE == 1
SYSCALL_STDIO == 2

\* The frames of physical memory and the cells of a page.
NumFrames == 5
PAGE_SIZE == 2

\* elf.h
ELF_EXECUTABLE == 2
ELF_P_LOAD == 1

\* What a block returned by malloc may hold before it is written.
Junk == {0, 1}

\* info->thread of a core whose core_bases entry was never written.
WILD == 0 - 1

\* rip of idle_frame is the kernel's idle function.
idle_frame == [rip |-> KERNEL_BASE + 1, rdi |-> 0, rsi |-> 0, rdx |-> 0,
               rax |-> 0]

\* ---------------------------------------------------------------- list
\* struct list: the nodes reachable from head (their values, in order),
\* the length field, and whether tail is the last node reachable from head
\* (NULL when there is none).
list_create == [items |-> <<>>, length |-> 0, tail_ok |-> TRUE]

\* list_append on a list whose tail is not reachable from head links the
\* node behind that tail: head and the nodes reachable from it stay as
\* they are.
list_insert_head(list, value) ==
    [list EXCEPT !.items = <<value>> \o @, !.length = @ + 1]

list_insert_tail(list, value) ==
    IF list.tail_ok
    THEN [list EXCEPT !.items = Append(@, value), !.length = @ + 1]
    ELSE [list EXCEPT !.length = @ + 1]

\* list_pop: the head node leaves the list; the caller takes its element.
list_pop(list) ==
    IF list.items = <<>>
    THEN [list |-> list, value |-> 0]
    ELSE [list |-> [items |-> Tail(list.items),
                    length |-> list.length - 1,
                    tail_ok |-> IF Len(list.items) = 1 THEN TRUE
                                ELSE list.tail_ok],
          value |-> Head(list.items)]

list_find(list, value) ==
    IF \E i \in 1..Len(list.items) : list.items[i] = value
    THEN CHOOSE i \in 1..Len(list.items) :
            /\ list.items[i] = value
            /\ \A j \in 1..(i - 1) : list.items[j] # value
    ELSE 0

\* list_delete of the node at position i: length is left as it was, and
\* tail is moved only when the node is not the head.
list_delete(list, i) ==
    [items |-> SubSeq(list.items, 1, i - 1)
                 \o SubSeq(list.items, i + 1, Len(list.items)),
     length |-> list.length,
     tail_ok |-> IF i = 1 /\ Len(list.items) = 1 THEN FALSE
                 ELSE list.tail_ok]

\* list_shift: the first element leaves the list and is returned.
list_shift(list) ==
    IF list.items = <<>>
    THEN [list |-> list, null |-> TRUE, value |-> 0]
    ELSE [list |-> [list EXCEPT !.items = Tail(@), !.length = @ - 1],
          null |-> FALSE, value |-> Head(list.items)]

\* The paging state while no address space is followed.
NoVm == [on |-> FALSE]

\* ------------------------------------------------------------ state
VARIABLES
    scheduler_enabled,  \* task.c: bool scheduler_enabled
    task_lock,          \* 0: free, else the core that holds it
    task_next_id,       \* next process id
    processes,          \* struct list of process ids
    task_queue,         \* struct list of threads: the ready queue
    syscall_services,   \* struct list of (id, name) rows
    thread,             \* the struct thread objects, by allocation number
    process,            \* the struct process objects, by id
    core_bases,         \* per core: info->thread (0: NULL)
    frame,              \* per core: the interrupt frame it returns to
    running,            \* per core: the thread whose context frame holds (0: none)
    pc,                 \* per core: where the core is
    loc,                \* per core: the locals of the call it is in or was last in
    heap_failures,      \* heap.c: how often malloc has returned NULL
    registered,         \* history: per name, who registered it last
    vm                  \* physical frames, page tables, stores of user code

vars == <<scheduler_enabled, task_lock, task_next_id, processes, task_queue,
          syscall_services, thread, process, core_bases, frame, running,
          pc, loc, heap_failures, registered, vm>>

\* The kernel objects a scheduler routine works on, as one value.
Kernel == [task_queue |-> task_queue, thread |-> thread, process |-> process]

NoData == [pid |-> 0, interface |-> 0, method |-> 0]
NoParam == [type |-> SYSCALL_PARAM_PRIMITIVE, size |-> 0, value |-> 0,
            bytes |-> ""]
\* call: the number of the call; path: the path task_exec was given; out:
\* the record a PEEK or POP left at the
\* address it was given; touched: the byte ranges the last PUSH, PEEK or POP
\* read or wrote through pointers user code gave it.
NoLoc == [call |-> "", t |-> 0, data |-> NoData, param |-> NoParam,
          at |-> 0, args |-> <<>>, out |-> NoParam, touched |-> {},
          path |-> ""]

\* History kept with a handler thread until it is first given a core: the
\* METHOD request it was created for (the sender's arguments at the call,
\* the ids, the sender's process).
NoReq == [handler |-> FALSE, args |-> <<>>, interface |-> 0, method |-> 0,
          caller |-> 0]

\* History kept with every thread, the field pushed: the record its last
\* PUSH that found the argument list empty and returned 0 was given, and
\* the address user code goes on at behind that call.
NoPushed == [param |-> NoParam, next |-> 0]

\* ------------------------------------------------------- user code
\* The calls user code makes.  A call is made from an address (the rip of
\* the frame the core returned to); the frame the kernel gets holds the
\* address behind it.
user_array == [type |-> SYSCALL_PARAM_ARRAY, size |-> 1,
               value |-> KERNEL_BASE - 50, bytes |-> "svc"]
kernel_array == [type |-> SYSCALL_PARAM_ARRAY, size |-> 1,
                 value |-> KERNEL_BASE, bytes |-> "kmem"]
handler_entry == [type |-> SYSCALL_PARAM_PRIMITIVE, size |-> 8, value |-> 20,
                  bytes |-> ""]
service_entry == [type |-> SYSCALL_PARAM_PRIMITIVE, size |-> 8, value |-> 50,
                  bytes |-> ""]
ipc_entry == [type |-> SYSCALL_PARAM_PRIMITIVE, size |-> 8, value |-> 95,
              bytes |-> ""]
number == [type |-> SYSCALL_PARAM_PRIMITIVE, size |-> 8, value |-> 7,
           bytes |-> ""]

\* More arguments: a second number, an array of 4 KiB, an array whose last
\* bytes lie in the kernel half, and a record that lies in the kernel half
\* itself (what PUSH reads there is what the kernel keeps there).
number2 == [type |-> SYSCALL_PARAM_PRIMITIVE, size |-> 8, value |-> 8,
            bytes |-> ""]
page_array == [type |-> SYSCALL_PARAM_ARRAY, size |-> 4,
               value |-> KERNEL_BASE - 50, bytes |-> "page"]
crossing_array == [type |-> SYSCALL_PARAM_ARRAY, size |-> 4,
                   value |-> KERNEL_BASE - 2, bytes |-> "uukk"]
kernel_record == [type |-> SYSCALL_PARAM_PRIMITIVE, size |-> 8, value |-> 9,
                  bytes |-> ""]

\* The records user code hands to PEEK and POP: the union holds the
\* destination of an array (a buffer of the process, NULL, or an address in
\* the kernel half).
out_buffer == [type |-> SYSCALL_PARAM_ARRAY, size |-> 0,
               value |-> KERNEL_BASE - 40, bytes |-> ""]
out_null == [type |-> SYSCALL_PARAM_ARRAY, size |-> 0, value |-> 0,
             bytes |-> ""]
out_kernel == [type |-> SYSCALL_PARAM_ARRAY, size |-> 0,
               value |-> KERNEL_BASE + 5, bytes |-> ""]

\* A call: its number (rdi), the record rsi points to and where that
\* record lies.
Call(call, param, data, at) ==
    [call |-> call, param |-> param, data |-> data, at |-> at]

Push(param) == Call("PUSH", param, NoData, KERNEL_BASE - 60)
PushAt(param, at) == Call("PUSH", param, NoData, at)
Peek(out) == Call("PEEK", out, NoData, KERNEL_BASE - 60)
Pop(out) == Call("POP", out, NoData, KERNEL_BASE - 60)
PopAt(out, at) == Call("POP", out, NoData, at)
Method(pid, interface, method) ==
    Call("METHOD", NoParam,
         [pid |-> pid, interface |-> interface, method |-> method],
         KERNEL_BASE - 60)
Signal(interface, signal) ==
    Call("SIGNAL", NoParam,
         [pid |-> 0, interface |-> interface, method |-> signal],
         KERNEL_BASE - 60)
Exit == Call("EXIT", NoParam, NoData, 0)
Fork == Call("task_fork", NoParam, NoData, 0)
ExecPath(path) ==
    Call("task_exec", [NoParam EXCEPT !.bytes = path], NoData, 0)
Exec == ExecPath("/bin/one")

\* The files of the root file system, as load_elf reads them: the header
\* (whether the four bytes of Magic are those of ELF_MAGIC, ABI, Type,
\* Entry) and the program headers (Type, and whether frames are found and
\* locked and the bytes of the segment are read).  "/bin/one" and
\* "/bin/two" are static executables whose segments all load.
ElfFile(Magic, Type, phdrs) ==
    [Magic |-> Magic, ABI |-> 0, Type |-> Type, Entry |-> 75, phdrs |-> phdrs]
Segment(Type, loads) == [Type |-> Type, loads |-> loads]
fs_files ==
    [path \in {"/bin/one", "/bin/two", "/bin/big", "/lib/so", "/etc/motd"} |->
        CASE path = "/bin/one" ->
                ElfFile(TRUE, ELF_EXECUTABLE, <<Segment(ELF_P_LOAD, TRUE)>>)
          [] path = "/bin/two" ->
                ElfFile(TRUE, ELF_EXECUTABLE,
                        <<Segment(ELF_P_LOAD, TRUE), Segment(4, TRUE),
                          Segment(ELF_P_LOAD, TRUE)>>)
          [] path = "/bin/big" ->
                ElfFile(TRUE, ELF_EXECUTABLE,
                        <<Segment(ELF_P_LOAD, TRUE),
                          Segment(ELF_P_LOAD, FALSE)>>)
          [] path = "/lib/so" ->
                ElfFile(TRUE, 3, <<Segment(ELF_P_LOAD, TRUE)>>)
          [] OTHER -> ElfFile(FALSE, 0, <<>>)]

\* The paths user code names: the files, and one path of no file.
Paths == DOMAIN fs_files \cup {"/bin/none"}

\* The files that are static executables whose segments all load.
Loadable ==
    {path \in DOMAIN fs_files :
        /\ fs_files[path].Magic
        /\ fs_files[path].ABI = 0
        /\ fs_files[path].Type = ELF_EXECUTABLE
        /\ \A i \in 1..Len(fs_files[path].phdrs) :
              fs_files[path].phdrs[i].loads}

\* Three images the boot loader may hand to task_init.  The first (entry
\* 10) registers an IPC entry point (20) and calls a method of its own
\* process; the second (entry 30) forks; the third (entry 40) registers an
\* entry point (50), forks and calls a method of the child, which holds the
\* entry point of its parent.  What the code at an address may call next:
user_program(rip) ==
    CASE rip = 10 -> {Push(user_array)}
      [] rip = 11 -> {Push(handler_entry)}
      [] rip = 12 -> {Method(0, SYSCALL_GLOBAL_NAME_SERVICE, 1)}
      [] rip = 13 -> {Push(user_array), Push(kernel_array)}
      [] rip = 14 -> {Push(number), Push(kernel_array)}
      [] rip = 15 -> {Method(1, 2, 1)}
      [] rip = 16 -> {Exec, Exit}
      [] rip = 17 -> {Method(1, 2, 1), Method(2, 2, 1)}
      [] rip = 18 -> {Exit}
      [] rip = 19 -> {Push(number)}
      [] rip = 20 -> {Push(number), Exit}
      [] rip = 21 -> {Exit}
      [] rip = 22 -> {Push(number)}
      [] rip = 30 -> {Fork, Exit}
      [] rip = 31 -> {Fork, Exec, Exit}
      [] rip = 32 -> {Exit}
      [] rip = 40 -> {Push(user_array)}
      [] rip = 41 -> {Push(service_entry)}
      [] rip = 42 -> {Method(0, SYSCALL_GLOBAL_NAME_SERVICE, 1)}
      [] rip = 43 -> {Fork, Exit}
      [] rip = 44 -> {Push(number)}
      [] rip = 45 -> {Method(2, 2, 1)}
      [] rip = 46 -> {Exit}
      [] rip = 50 -> {Push(number), Exit}
      [] rip = 51 -> {Exit}
      [] rip = 60 -> {Push(number), Push(user_array), Push(page_array),
                      Push(crossing_array), Push(kernel_array),
                      PushAt(kernel_record, KERNEL_BASE + 10)}
      [] rip = 61 -> {Push(number2), Pop(out_buffer), Pop(out_null),
                      Peek(out_buffer), Peek(out_kernel)}
      [] rip = 62 -> {Peek(out_buffer), Pop(out_buffer), Pop(out_kernel),
                      PopAt(out_buffer, KERNEL_BASE + 10)}
      [] rip = 63 -> {Pop(out_buffer), Peek(out_buffer)}
      [] rip = 64 -> {Pop(out_buffer), Exit}
      [] rip = 65 -> {Exit}
      [] rip = 70 -> {Push(number)}
      [] rip = 71 -> {Fork, Push(number2)}
      [] rip = 72 -> {ExecPath(path) : path \in Paths}
      [] rip = 73 -> {Exit}
      [] rip = 80 -> {Push(user_array)}
      [] rip = 81 -> {Push(ipc_entry)}
      [] rip = 82 -> {Method(0, SYSCALL_GLOBAL_NAME_SERVICE, 1)}
      [] rip = 83 -> {Fork}
      [] rip = 84 -> {Push(user_array)}
      [] rip = 85 -> {Push(ipc_entry), Signal(2, 1),
                      Method(0, SYSCALL_GLOBAL_NAME_SERVICE, 2)}
      [] rip = 86 -> {Method(0, SYSCALL_GLOBAL_NAME_SERVICE, 1),
                      Push(user_array)}
      [] rip = 87 -> {Push(user_array)}
      [] rip = 88 -> {Method(0, SYSCALL_GLOBAL_NAME_SERVICE, 0)}
      [] rip = 89 -> {Exit}
      [] rip = 90 -> {Push(number)}
      [] rip = 91 -> {Fork, Exit}
      [] rip = 92 -> {Exit}
      [] OTHER -> {}

init_images == {[entry |-> 10], [entry |-> 30], [entry |-> 40]}

\* Two more images.  The first (entry 60) pushes arguments and reads them
\* back; the second (entry 80) registers the name "svc" with an entry
\* point and forks; parent and child then run the same code: each sends a
\* signal, registers the name again or unregisters it, and looks it up.
ipc_images == {[entry |-> 60]}
exec_images == {[entry |-> 70]}
name_images == {[entry |-> 80]}

\* An image (entry 90) whose process forks; parent and child then exit.
fork_exit_images == {[entry |-> 90]}

\* The names the history follows.
Names == {"svc"}

syscall_kernel == [id |-> 0, name |-> "fi.erikinkinen.kernel"]

\* A fresh struct interrupt_frame from malloc: task_new_thread writes rip
\* (and rsp, rbp, cs, ss, rflags); the other registers hold what the block held.
NewFrame(entry, junk) ==
    [rip |-> entry, rdi |-> junk, rsi |-> junk, rdx |-> junk, rax |-> junk]

\* ----------------------------------------------------------- task.c
task_find_process(pid) ==
    IF \E i \in 1..Len(processes.items) : processes.items[i] = pid
    THEN pid
    ELSE 0

\* ipc_handler, the third parameter, only selects whether task_delete_thread
\* frees the argument list with the thread; what a freed object holds is
\* not followed, so neither is the field.
task_new_thread(K, proc, entry, junk) ==
    LET t == Len(K.thread) + 1
        new == [id |-> K.process[proc].next_tid,
                proc |-> proc,
                exiting |-> FALSE,
                syscall_params |-> list_create,
                context |-> NewFrame(entry, junk),
                freed |-> FALSE,
                req |-> NoReq,
                pushed |-> NoPushed]
    IN  [task_queue |-> list_insert_tail(K.task_queue, t),
         thread |-> Append(K.thread, new),
         process |-> [K.process EXCEPT
                        ![proc].next_tid = @ + 1,
                        ![proc].threads = list_insert_tail(@, t)]]

\* A struct thread behind free().
FreedThread ==
    [id |-> 0, proc |-> 0, exiting |-> FALSE, syscall_params |-> list_create,
     context |-> idle_frame, freed |-> TRUE, req |-> NoReq,
     pushed |-> NoPushed]

task_delete_thread(K, t) ==
    LET th == K.thread[t]
        qi == list_find(K.task_queue, t)
        pl == K.process[th.proc].threads
        pi == list_find(pl, t)
    IN  [task_queue |-> IF qi # 0 THEN list_delete(K.task_queue, qi)
                        ELSE K.task_queue,
         thread |-> [K.thread EXCEPT ![t] = FreedThread],
         process |-> [K.process EXCEPT
                        ![th.proc].threads =
                            IF pi # 0 THEN list_delete(pl, pi) ELSE pl]]

\* task_switch between spinlock_acquire and spinlock_release, on a core
\* whose info->thread is it and whose interrupt frame is fr.  The result:
\* the kernel objects, info->thread, the frame, the thread the frame
\* belongs to.
task_switch(K, it, fr, owner) ==
    LET reap == it # 0 /\ K.thread[it].exiting
        K1 == IF reap THEN task_delete_thread(K, it) ELSE K
        it1 == IF reap THEN 0 ELSE it
    IN  IF K1.task_queue.length # 0
        THEN LET K2 == IF it1 # 0
                       THEN [K1 EXCEPT
                               !.thread[it1].context = fr,
                               !.task_queue = list_insert_tail(@, it1)]
                       ELSE K1
                 p == list_pop(K2.task_queue)
                 K3 == [K2 EXCEPT !.task_queue = p.list]
             IN  IF p.value # 0
                 THEN [K |-> K3,
                       thread |-> p.value,
                       frame |-> K3.thread[p.value].context,
                       running |-> p.value]
                 ELSE [K |-> K3, thread |-> it1, frame |-> fr,
                       running |-> owner]
        ELSE IF it1 = 0
             THEN [K |-> K1, thread |-> 0, frame |-> idle_frame, running |-> 0]
             ELSE [K |-> K1, thread |-> it1, frame |-> fr, running |-> owner]

\* -------------------------------------------------------- syscall.c
syscall_kernel_interfaces ==
    << [id |-> SYSCALL_LOCAL_NAME_SERVICE,
        name |-> "fi.erikinkinen.LocalNameService"],
       [id |-> SYSCALL_GLOBAL_NAME_SERVICE,
        name |-> "fi.erikinkinen.GlobalNameService"],
       [id |-> SYSCALL_STDIO, name |-> "fi.erikinkinen.kernel.Stdio"] >>

syscall_local_name_service_methods ==
    << [id |-> 0, name |-> "FindInterface"], [id |-> 1, name |-> "FindMethod"] >>

syscall_global_name_service_methods ==
    << [id |-> 0, name |-> "FindDestination"],
       [id |-> 1, name |-> "RegisterDestination"],
       [id |-> 2, name |-> "UnregisterDestination"] >>

syscall_stdio_methods ==
    << [id |-> 0, name |-> "Read"], [id |-> 1, name |-> "Write"],
       [id |-> 2, name |-> "Flush"] >>

\* The first row of a table (or of the service list) that carries name:
\* its position, 0 when there is none.
FirstNamed(rows, name) ==
    IF \E i \in 1..Len(rows) : rows[i].name = name
    THEN CHOOSE i \in 1..Len(rows) :
            /\ rows[i].name = name
            /\ \A j \in 1..(i - 1) : rows[j].name # name
    ELSE 0

FirstWithId(rows, id) ==
    IF \E i \in 1..Len(rows) : rows[i].id = id
    THEN CHOOSE i \in 1..Len(rows) :
            /\ rows[i].id = id
            /\ \A j \in 1..(i - 1) : rows[j].id # id
    ELSE 0

\* The result of a kernel method: the caller's argument list, the service
\* list, the caller's process's syscall_callback, the value returned.
KResult(params, services, callback, rax) ==
    [params |-> params, services |-> services, callback |-> callback,
     rax |-> rax]

\* What list_shift returned is an argument (not NULL) of the type.
IsArray(s) == ~s.null /\ s.value.type = SYSCALL_PARAM_ARRAY
IsPrimitive(s) == ~s.null /\ s.value.type = SYSCALL_PARAM_PRIMITIVE

syscall_find_service(params, services, callback) ==
    LET s == list_shift(params)
    IN  IF ~IsArray(s)
        THEN KResult(s.list, services, callback, 0 - 1)
        ELSE LET i == FirstNamed(services.items, s.value.array)
             IN  KResult(s.list, services, callback,
                         IF i # 0 THEN services.items[i].id ELSE 0 - 1)

syscall_find_id(params, services, callback, table) ==
    LET s == list_shift(params)
    IN  IF ~IsArray(s)
        THEN KResult(s.list, services, callback, 0 - 1)
        ELSE LET i == FirstNamed(table, s.value.array)
             IN  KResult(s.list, services, callback,
                         IF i # 0 THEN table[i].id ELSE 0 - 1)

syscall_find_method(params, services, callback) ==
    LET s == list_shift(params)
    IN  IF ~IsPrimitive(s)
        THEN KResult(s.list, services, callback, 0 - 1)
        ELSE CASE s.value.value = SYSCALL_LOCAL_NAME_SERVICE ->
                    syscall_find_id(s.list, services, callback,
                                    syscall_local_name_service_methods)
               [] s.value.value = SYSCALL_GLOBAL_NAME_SERVICE ->
                    syscall_find_id(s.list, services, callback,
                                    syscall_global_name_service_methods)
               [] s.value.value = SYSCALL_STDIO ->
                    syscall_find_id(s.list, services, callback,
                                    syscall_stdio_methods)
               [] OTHER -> KResult(s.list, services, callback, 0 - 1)

syscall_stdio_write(params, services, callback) ==
    LET s == list_shift(params)
    IN  IF ~IsArray(s)
        THEN KResult(s.list, services, callback, 0 - 1)
        ELSE KResult(s.list, services, callback, 0)

syscall_register_service(params, services, callback, pid) ==
    LET s1 == list_shift(params)
    IN  IF ~IsArray(s1)
        THEN KResult(s1.list, services, callback, 0 - 1)
        ELSE LET s2 == list_shift(s1.list)
             IN  IF ~IsPrimitive(s2)
                 THEN KResult(s2.list, services, callback, 0 - 1)
                 ELSE IF s2.value.value = 0
                 THEN KResult(s2.list, services, callback, 0 - 1)
                 ELSE LET i == FirstWithId(services.items, pid)
                          row == [id |-> pid, name |-> s1.value.array]
                      IN  KResult(s2.list,
                                  IF i # 0
                                  THEN [services EXCEPT !.items[i] = row]
                                  ELSE list_insert_tail(services, row),
                                  s2.value.value, pid)

syscall_unregister_service(params, services, callback) ==
    LET s == list_shift(params)
    IN  IF ~IsArray(s)
        THEN KResult(s.list, services, callback, 0 - 1)
        ELSE LET i == FirstNamed(services.items, s.value.array)
             IN  IF i # 0
                 THEN KResult(s.list, list_delete(services, i), callback, 0)
                 ELSE KResult(s.list, services, callback, 0 - 1)

syscall_kernel_method(interface, method, params, services, callback, pid) ==
    CASE interface = SYSCALL_LOCAL_NAME_SERVICE /\ method = 0 ->
            syscall_find_id(params, services, callback,
                            syscall_kernel_interfaces)
      [] interface = SYSCALL_LOCAL_NAME_SERVICE /\ method = 1 ->
            syscall_find_method(params, services, callback)
      [] interface = SYSCALL_GLOBAL_NAME_SERVICE /\ method = 0 ->
            syscall_find_service(params, services, callback)
      [] interface = SYSCALL_GLOBAL_NAME_SERVICE /\ method = 1 ->
            syscall_register_service(params, services, callback, pid)
      [] interface = SYSCALL_GLOBAL_NAME_SERVICE /\ method = 2 ->
            syscall_unregister_service(params, services, callback)
      [] interface = SYSCALL_STDIO /\ method = 1 ->
            syscall_stdio_write(params, services, callback)
      [] interface = SYSCALL_STDIO /\ method = 2 ->
            KResult(params, services, callback, 0)
      [] OTHER -> KResult(params, services, callback, 0 - 1)

RECURSIVE syscall_copy_params(_, _)
syscall_copy_params(src, dst) ==
    IF src.length = 0
    THEN [src |-> src, dst |-> dst]
    ELSE LET s == list_shift(src)
         IN  syscall_copy_params(s.list, list_insert_tail(dst, s.value))

\* syscall_param_push on the caller's list; oom names the malloc that
\* returns NULL ("none": neither).  The result: the list, the value returned.
syscall_param_push_unchecked(params, param, oom) ==
    IF oom # "none"
    THEN [params |-> params, rax |-> 0 - 1]
    ELSE [params |-> list_insert_tail(params,
                        [type |-> param.type, size |-> param.size,
                         value |-> IF param.type = SYSCALL_PARAM_ARRAY
                                   THEN 0 ELSE param.value,
                         array |-> param.bytes]),
          rax |-> 0]

syscall_param_push(params, param, oom) ==
    IF oom = "copy"
    THEN [params |-> params, rax |-> 0 - 1]
    ELSE IF param.type = SYSCALL_PARAM_ARRAY
    THEN IF param.value >= KERNEL_BASE
         THEN [params |-> params, rax |-> 0 - 1]
         ELSE IF oom = "array"
         THEN [params |-> params, rax |-> 0 - 1]
         ELSE [params |-> list_insert_tail(params,
                             [type |-> param.type, size |-> param.size,
                              value |-> 0, array |-> param.bytes]),
               rax |-> 0]
    ELSE [params |-> list_insert_tail(params,
                        [type |-> param.type, size |-> param.size,
                         value |-> param.value, array |-> ""]),
          rax |-> 0]

\* The bytes from lo up to hi, hi not among them.
Range(lo, size) == [lo |-> lo, hi |-> lo + size]

\* What syscall_param_push reads through the pointers user code gave: the
\* record at the address in rsi, and the bytes of an array it copies.
PushReads(param, at, oom) ==
    IF oom = "copy"
    THEN {}
    ELSE {Range(at, 1)}
         \cup IF /\ param.type = SYSCALL_PARAM_ARRAY
                 /\ param.value < KERNEL_BASE
                 /\ oom = "none"
              THEN {Range(param.value, param.size)}
              ELSE {}

\* syscall_copy_param without the memcpy of an array's bytes.
syscall_copy_param_no_bytes(src, dst, at) ==
    [rax |-> 0,
     out |-> [type |-> src.type, size |-> src.size,
              value |-> IF src.type = SYSCALL_PARAM_ARRAY THEN dst.value
                        ELSE src.value,
              bytes |-> dst.bytes],
     touched |-> {Range(at, 1)}]

\* syscall_copy_param(src, dst), dst the record at the address at: the
\* value returned, the record as it is left, what was written.
syscall_copy_param(src, dst, at) ==
    LET out == [type |-> src.type, size |-> src.size, value |-> dst.value,
                bytes |-> dst.bytes]
    IN  IF src.type = SYSCALL_PARAM_ARRAY
        THEN IF dst.value = 0
             THEN [rax |-> 0, out |-> out, touched |-> {Range(at, 1)}]
             ELSE IF dst.value < KERNEL_BASE
             THEN [rax |-> 0,
                   out |-> [out EXCEPT !.bytes = src.array],
                   touched |-> {Range(at, 1), Range(dst.value, src.size)}]
             ELSE [rax |-> 0 - 1, out |-> out, touched |-> {Range(at, 1)}]
        ELSE [rax |-> 0,
              out |-> [out EXCEPT !.value = src.value],
              touched |-> {Range(at, 1)}]

\* syscall_param_peek on a list with a head node.
syscall_param_peek(params, dst, at) ==
    LET k == syscall_copy_param(Head(params.items), dst, at)
    IN  [params |-> params, rax |-> k.rax, out |-> k.out,
         touched |-> k.touched]

syscall_param_pop(params, dst, at) ==
    LET s == list_shift(params)
    IN  IF s.null
        THEN [params |-> s.list, rax |-> 0 - 1, out |-> dst, touched |-> {}]
        ELSE LET k == syscall_copy_param(s.value, dst, at)
             IN  [params |-> s.list, rax |-> k.rax, out |-> k.out,
                  touched |-> k.touched]

\* task_fork between spinlock_acquire and spinlock_release.
task_fork(K, t, pid) ==
    LET parent == K.thread[t].proc
        ct == Len(K.thread) + 1
        child == [id |-> pid,
                  syscall_callback |-> K.process[parent].syscall_callback,
                  threads |-> list_insert_tail(list_create, ct),
                  next_tid |-> 2,
                  parent |-> parent,
                  children |-> list_create]
        child_thread == [id |-> 1,
                         proc |-> pid,
                         exiting |-> FALSE,
                         syscall_params |-> list_create,
                         context |-> K.thread[t].context,
                         freed |-> FALSE,
                         req |-> NoReq,
                         pushed |-> NoPushed]
    IN  [task_queue |-> list_insert_tail(K.task_queue, ct),
         thread |-> Append(K.thread, child_thread),
         process |-> Append([K.process EXCEPT
                               ![parent].children = list_insert_tail(@, pid)],
                            child)]

\* The loop of task_exec over the threads of the process: every thread
\* but t is deleted.
RECURSIVE DeleteOthers(_, _, _)
DeleteOthers(K, ts, t) ==
    IF ts = <<>>
    THEN K
    ELSE DeleteOthers(IF Head(ts) # t THEN task_delete_thread(K, Head(ts))
                      ELSE K,
                      Tail(ts), t)

\* fs_find_node: whether the root file system has a file of the path.
fs_find_node(path) == IF path \in DOMAIN fs_files THEN 0 ELSE 0 - 1

\* ------------------------------------------------------------- elf.c
validate_elf(hdr) ==
    IF ~hdr.Magic THEN FALSE
    ELSE IF hdr.ABI # 0 THEN FALSE
    ELSE IF hdr.Type # ELF_EXECUTABLE THEN FALSE
    ELSE TRUE

\* The loop of load_elf over the program headers, from header i (counted
\* from 0) on; ret is what the function returns behind the loop.
RECURSIVE load_elf_loop(_, _, _)
load_elf_loop(phdrs, i, ret) ==
    IF ~(i < Len(phdrs))
    THEN ret
    ELSE IF phdrs[i + 1].Type = ELF_P_LOAD /\ ~phdrs[i + 1].loads
    THEN ret
    ELSE load_elf_loop(phdrs, i + 1, IF i = Len(phdrs) THEN TRUE ELSE ret)

load_elf(file) ==
    IF ~validate_elf(file)
    THEN FALSE
    ELSE load_elf_loop(file.phdrs, 0, FALSE)

\* ----------------------------------------------------------- task.c
\* task_exec between spinlock_acquire and spinlock_release: the objects
\* it leaves and the value it returns.
task_exec(K, t, path, junk) ==
    LET proc == K.thread[t].proc
        K1 == DeleteOthers(K, K.process[proc].threads.items, t)
        K2 == [K1 EXCEPT !.process[proc].next_tid = 2,
                         !.thread[t].id = 1,
                         !.thread[t].syscall_params = list_create,
                         !.thread[t].pushed = NoPushed]
    IN  IF ~load_elf(fs_files[path])
        THEN [K |-> K2, rax |-> 0 - 1]
        ELSE [K |-> [K2 EXCEPT !.thread[t].context =
                                   NewFrame(fs_files[path].Entry, junk)],
              rax |-> 0]

\* ------------------------------------- memory.c, paging.c, idt.c
\* The frames the allocator hands out and the pages of user space that
\* are followed.  A page holds PAGE_SIZE cells, numbered from 0; the frames
\* that hold the page tables themselves are not followed, and every
\* access reads the translation from the tables (no stale TLB entry).
Frames == 1..NumFrames
Pages == {0, 1}
Offsets == 0..(PAGE_SIZE - 1)
Parent == 1
Child == 2

\* A leaf entry of a page table: the flags and the frame.
NoPte == [present |-> FALSE, write |-> FALSE, user |-> FALSE, cow |-> FALSE,
          frame |-> 0]

\* A store of user code that raised a page fault: the page and the offset
\* in it (cr2), the handler's progress, and the value to be stored.
NoFault == [stage |-> "none", page |-> 0, off |-> 0, val |-> <<0, 0>>]

\* P_X64_COW, a bit of a leaf entry that the hardware ignores.
P_X64_COW == "cow"
P_USER_WRITE == {"user", "write"}

paging_flags_to_arch(flags) ==
    [NoPte EXCEPT !.present = TRUE,
                  !.user = "user" \in flags,
                  !.write = "write" \in flags,
                  !.cow = P_X64_COW \in flags]

\* find_free_frames(1): the lowest frame whose bit is clear, or -1.
find_free_frames(V) ==
    IF \E f \in Frames : ~V.bitmap[f]
    THEN CHOOSE f \in Frames :
            ~V.bitmap[f] /\ \A g \in Frames : ~V.bitmap[g] => f <= g
    ELSE 0 - 1

set_frame_lock_off(V, f, lock) == V

set_frame_lock(V, f, lock) == [V EXCEPT !.bitmap[f] = lock]

frame_ref_inc(V, f) == [V EXCEPT !.refcount[f] = @ + 1]

frame_ref_dec(V, f) ==
    IF V.refcount[f] = 0
    THEN V
    ELSE [V EXCEPT !.refcount[f] = @ - 1,
                   !.bitmap[f] = IF V.refcount[f] = 1 THEN FALSE ELSE @]

paging_map_page(V, p, page, f, flags) ==
    frame_ref_inc(
        [V EXCEPT !.tables[p][page] =
                     [paging_flags_to_arch(flags) EXCEPT !.frame = f]],
        f)

\* clone_user_space_cow, the pages from page on.
RECURSIVE clone_user_space_cow(_, _, _, _)
clone_user_space_cow(V, src, dst, page) ==
    IF page \notin Pages
    THEN V
    ELSE LET entry == V.tables[src][page]
             flags == IF entry.write
                      THEN [entry EXCEPT !.write = FALSE, !.cow = TRUE]
                      ELSE entry
         IN  IF ~entry.present
             THEN clone_user_space_cow(V, src, dst, page + 1)
             ELSE clone_user_space_cow(
                      frame_ref_inc([V EXCEPT !.tables[src][page] = flags,
                                              !.tables[dst][page] = flags],
                                    entry.frame),
                      src, dst, page + 1)

\* The kernel halts in panic_handler.
Panic(V) == [V EXCEPT !.panic = TRUE]

\* The page and the cell the i-th byte from (page, off) lies in.
PageAt(page, off, i) == IF off + i < PAGE_SIZE THEN page ELSE page + 1
CellAt(off, i) == IF off + i < PAGE_SIZE THEN off + i ELSE off + i - PAGE_SIZE

\* The kernel can read the PAGE_SIZE bytes from (page, off) in process p.
Readable(V, p, page, off) ==
    \A i \in Offsets :
        /\ PageAt(page, off, i) \in Pages
        /\ V.tables[p][PageAt(page, off, i)].present

\* memcpy(buffer, (void *)addr, PAGE_SIZE).
ReadFrom(V, p, page, off) ==
    [i \in Offsets |->
        V.mem[V.tables[p][PageAt(page, off, i)].frame][CellAt(off, i)]]

\* memcpy((void *)addr, buffer, PAGE_SIZE), the cells that lie in page.
WriteTo(V, p, page, off, buffer) ==
    LET f == V.tables[p][page].frame
    IN  [V EXCEPT !.mem[f] =
            [j \in Offsets |-> IF j >= off THEN buffer[j - off] ELSE @[j]]]

\* handle_page_fault of process p with cr2 = (page, off).  The second
\* memcpy writes the bytes behind the end of the page to the next page: a
\* page the kernel may not write (CR0.WP) faults in turn, at its first
\* byte.
RECURSIVE handle_page_fault(_, _, _, _)
handle_page_fault(V, p, page, off) ==
    LET entry == V.tables[p][page]
        old_paddr == entry.frame
        new_paddr == find_free_frames(V)
    IN  IF ~entry.present \/ ~entry.cow
        THEN Panic(V)
        ELSE IF new_paddr = 0 - 1
        THEN Panic(V)
        ELSE LET V1 == set_frame_lock(V, new_paddr, TRUE)
             IN  IF ~Readable(V1, p, page, off)
                 THEN Panic(V1)
                 ELSE LET buffer == ReadFrom(V1, p, page, off)
                          V2 == paging_map_page(V1, p, page, new_paddr,
                                                P_USER_WRITE)
                          V3 == WriteTo(V2, p, page, off, buffer)
                          next == V3.tables[p][page + 1]
                          V4 == IF off = 0 \/ next.write \/ ~V3.wp
                                THEN V3
                                ELSE handle_page_fault(V3, p, page + 1, 0)
                      IN  IF V4.panic
                          THEN V4
                          ELSE frame_ref_dec(V4, old_paddr)

\* A store of user code of process p: the mapping lets it write.
MayStore(V, p, page) ==
    /\ V.tables[p][page].present
    /\ V.tables[p][page].user
    /\ V.tables[p][page].write

Store(V, p, page, off, val) ==
    [V EXCEPT !.mem[V.tables[p][page].frame][off] = val]

\* paging_create_table: the frame of the table, or -1 for NULL.  One frame
\* stands for the tables of all levels of an address space.
paging_create_table(V) ==
    LET table == find_free_frames(V)
    IN  IF table = 0 - 1
        THEN [V |-> V, table |-> 0 - 1]
        ELSE [V |-> [set_frame_lock(V, table, TRUE)
                       EXCEPT !.mem[table] = [j \in Offsets |-> <<0, 0>>]],
              table |-> table]

\* task_new_address_space: with no frame for the table the kernel writes
\* through NULL.
task_new_address_space(V, p) ==
    LET r == paging_create_table(V)
    IN  IF r.table = 0 - 1
        THEN Panic(V)
        ELSE [r.V EXCEPT !.pml4[p] = r.table,
                         !.tables[p] = [page \in Pages |-> NoPte]]

paging_unmap_page(V, p, page) ==
    IF ~V.tables[p][page].present
    THEN V
    ELSE frame_ref_dec([V EXCEPT !.tables[p][page] = NoPte],
                       V.tables[p][page].frame)

\* task_free_address_space, the leaves from page on, then the tables.
RECURSIVE task_free_address_space(_, _, _)
task_free_address_space(V, p, page) ==
    IF page \notin Pages
    THEN IF V.pml4[p] = 0
         THEN V
         ELSE [set_frame_lock(V, V.pml4[p], FALSE) EXCEPT !.pml4[p] = 0]
    ELSE IF ~V.tables[p][page].present
    THEN task_free_address_space(V, p, page + 1)
    ELSE LET paddr == V.tables[p][page].frame
             V1 == frame_ref_dec(V, paddr)
             V2 == IF V1.refcount[paddr] = 0
                   THEN set_frame_lock(V1, paddr, FALSE)
                   ELSE V1
         IN  task_free_address_space(V2, p, page + 1)

\* task_alloc_stack: the stack is the last page of the address space.
task_alloc_stack(V, p) ==
    LET pstack == find_free_frames(V)
    IN  IF pstack = 0 - 1
        THEN Panic(V)
        ELSE paging_map_page(set_frame_lock(V, pstack, TRUE), p, 1, pstack,
                             P_USER_WRITE)

\* expand_heap: the page goes into the tables of the kernel.
expand_heap_frame(V) ==
    LET page == find_free_frames(V)
    IN  IF page = 0 - 1
        THEN V
        ELSE frame_ref_inc(set_frame_lock(V, page, TRUE), page)

\* load_elf of an image of one segment of one page, at page 0.
load_elf_page(V, p) ==
    LET pages == find_free_frames(V)
    IN  IF pages = 0 - 1
        THEN V
        ELSE paging_map_page(set_frame_lock(V, pages, TRUE), p, 0, pages,
                             P_USER_WRITE)

\* What task_exec does to the address space of the process.
task_exec_space(V, p) ==
    LET V1 == task_alloc_stack(V, p)
        V2 == task_free_address_space(V1, p, 0)
        V3 == task_new_address_space(V2, p)
    IN  IF V1.panic THEN V1
        ELSE IF V3.panic THEN V3
        ELSE load_elf_page(V3, p)

\* The memory after load_elf of the first process: page 0 is mapped, page 1
\* may be; both USER_WRITE, each frame referenced once.  Cell j of the
\* frame f of a page holds <<f, j>>; free frames hold what they were left
\* with.  CR0.WP is as the boot loader left it.  pml4 is the frame of the
\* tables of a process where it is among the frames followed (0: it is
\* not; the tables of the first process are not).  prefork is history: the
\* allocator, the tables of the parent and the memory as task_fork found
\* them.
BootVm ==
    {[on |-> TRUE, wp |-> wp, forked |-> FALSE, panic |-> FALSE,
      bitmap |-> [f \in Frames |-> f <= n],
      refcount |-> [f \in Frames |-> IF f <= n THEN 1 ELSE 0],
      mem |-> [f \in Frames |->
                 [j \in Offsets |-> IF f <= n THEN <<f, j>> ELSE stale]],
      tables |-> [p \in {Parent, Child} |->
                    [page \in Pages |->
                       IF p = Parent /\ page < n
                       THEN [paging_flags_to_arch(P_USER_WRITE)
                               EXCEPT !.frame = page + 1]
                       ELSE NoPte]],
      fault |-> [p \in {Parent, Child} |-> NoFault],
      pml4 |-> [p \in {Parent, Child} |-> 0],
      prefork |-> <<>>] :
        wp \in BOOLEAN, n \in {1, 2}, stale \in {<<0, 0>>, <<0, 1>>}}

\* ---------------------------------------------------------- memory.c
\* The page-frame allocator, by its own arithmetic.  Addresses are bytes
\* and a frame has the PAGE_SIZE of memory.h; the bitmap is followed bit by
\* bit: bit k of byte b is entry 8 * b + k, and the entries past the last
\* byte of the bitmap are the memory that follows it.
PAGE_SIZE_4K == 4096
EFI_CONVENTIONAL_MEMORY == 7
UINTPTR_MAX == 2147483647
NumPfaFrames == 16
MaxRun == 3
SlackBits == 16

BitsOf(frames) == 0..(frames + SlackBits - 1)

\* fill_bitmap_region: the entries it writes.  The masks are the sets of
\* the bit positions they have set; the subtractions are unsigned (of 16
\* bits here).
fill_bitmap_written(start_bit, num_bits) ==
    LET start_offset == start_bit % 8
        end_offset == (start_bit + num_bits) % 8
        first_full_byte ==
            start_bit \div 8 + (IF start_offset # 0 THEN 1 ELSE 0)
        last_full_byte ==
            ((start_bit + num_bits) \div 8
                - (IF end_offset # 0 THEN 0 ELSE 1)) % 65536
        head == IF first_full_byte - 1 = last_full_byte /\ end_offset # 0
                THEN {k \in 0..7 : k >= start_offset /\ k < end_offset}
                ELSE {k \in 0..7 : k >= start_offset}
        count == (last_full_byte - first_full_byte + 1) % 65536
        tail == {k \in 0..7 : k < end_offset}
    IN  (IF start_offset # 0
         THEN {8 * (first_full_byte - 1) + k : k \in head}
         ELSE {})
        \cup {8 * b + k :
                b \in first_full_byte..(first_full_byte + count - 1),
                k \in 0..7}
        \cup (IF end_offset # 0 /\ last_full_byte + 1 > first_full_byte
              THEN {8 * (last_full_byte + 1) + k : k \in tail}
              ELSE {})

fill_bitmap_region(bitmap, start_bit, num_bits, value) ==
    [i \in DOMAIN bitmap |->
        IF i \in fill_bitmap_written(start_bit, num_bits) THEN value
        ELSE bitmap[i]]

\* fill_bitmap_region as a loop over the bits of the region would do it.
fill_bitmap_bitwise(bitmap, start_bit, num_bits, value) ==
    [i \in DOMAIN bitmap |->
        IF i >= start_bit /\ i < start_bit + num_bits THEN value
        ELSE bitmap[i]]

\* memory_get_size: the loop over the entries of the memory map.
RECURSIVE memory_get_size_loop(_, _, _)
memory_get_size_loop(map, i, M) ==
    IF i > Len(map)
    THEN M
    ELSE LET e == map[i]
             end == e.PhysicalStart + e.NumberOfPages * PAGE_SIZE_4K
         IN  memory_get_size_loop(map, i + 1,
                [base |-> IF e.PhysicalStart < M.base THEN e.PhysicalStart
                          ELSE M.base,
                 length |-> IF end > M.length THEN end ELSE M.length,
                 at |-> IF e.Type = EFI_CONVENTIONAL_MEMORY /\ M.at = 0
                        THEN e.PhysicalStart ELSE M.at,
                 bitmap |-> M.bitmap])

memory_get_size(map, M) ==
    LET M0 == [M EXCEPT !.base = UINTPTR_MAX, !.length = 0]
    IN  IF Len(map) = 0
        THEN M0
        ELSE LET M1 == memory_get_size_loop(map, 1, M0)
             IN  [M1 EXCEPT !.length = @ - M1.base]

\* find_free_frames(n), the loop from frame i with count frames counted.
RECURSIVE find_free_frames_loop(_, _, _, _)
find_free_frames_loop(M, n, i, count) ==
    IF ~(i < M.length \div PAGE_SIZE_4K)
    THEN 0 - 1
    ELSE LET byte_index == (i - M.base \div PAGE_SIZE_4K) \div 8
             bit_index == i % 8
             c == IF ~M.bitmap[8 * byte_index + bit_index] THEN count + 1
                  ELSE 0
         IN  IF c = n
             THEN (i - n + 1) * PAGE_SIZE_4K
             ELSE find_free_frames_loop(M, n, i + 1, c)

find_free_frames_n(M, n) ==
    find_free_frames_loop(M, n, M.base \div PAGE_SIZE_4K, 0)

\* set_frame_lock(frame, n, lock): the allocator after it, and its result.
set_frame_lock_n(M, frame_addr, n, lock) ==
    IF frame_addr < M.base \/ frame_addr > M.base + M.length
    THEN [memory |-> M, ret |-> 0 - 1]
    ELSE [memory |-> [M EXCEPT !.bitmap =
                        fill_bitmap_region(@,
                            (frame_addr - M.base) \div PAGE_SIZE_4K, n, lock)],
          ret |-> frame_addr]

\* The loop of page_frame_allocator_init over the entries of the map.
RECURSIVE unlock_conventional(_, _, _)
unlock_conventional(map, i, M) ==
    IF i > Len(map)
    THEN M
    ELSE unlock_conventional(map, i + 1,
            IF map[i].Type = EFI_CONVENTIONAL_MEMORY
            THEN set_frame_lock_n(M, map[i].PhysicalStart,
                                  map[i].NumberOfPages, FALSE).memory
            ELSE M)

\* page_frame_allocator_init past the check of _memory.bitmap.
pfa_init(map, M) ==
    LET M0 == memory_get_size(map, M)
        bitmap_length == (M0.length \div PAGE_SIZE_4K) \div 8
        M1 == [M0 EXCEPT !.bitmap =
                 [i \in BitsOf(M0.length \div PAGE_SIZE_4K) |->
                     i < 8 * bitmap_length]]
        M2 == unlock_conventional(map, 1, M1)
    IN  set_frame_lock_n(M2, M2.at, bitmap_length \div PAGE_SIZE_4K + 1,
                         TRUE).memory

\* The memory maps the boot loader hands over: one region of conventional
\* memory of 256 pages at 0x1000; reserved pages below 16 conventional ones.
MMapEntry(Type, PhysicalStart, NumberOfPages) ==
    [Type |-> Type, PhysicalStart |-> PhysicalStart,
     NumberOfPages |-> NumberOfPages]
OneRegionMap == <<MMapEntry(EFI_CONVENTIONAL_MEMORY, PAGE_SIZE_4K, 256)>>
MemoryMaps ==
    {OneRegionMap,
     <<MMapEntry(0, 0, 8),
       MMapEntry(EFI_CONVENTIONAL_MEMORY, 8 * PAGE_SIZE_4K, NumPfaFrames)>>}

NoMemory == [base |-> 0, length |-> 0, at |-> 0, bitmap |-> <<>>]
NoArgs == [frame |-> 0, n |-> 0, lock |-> FALSE]

\* The bitmaps of NumPfaFrames frames the calls are tried on: all frames
\* locked but for two runs of free ones, the first of at most MaxRun.
PfaBitmaps ==
    {[i \in BitsOf(NumPfaFrames) |->
        /\ i < NumPfaFrames
        /\ ~(i >= a /\ i < a + k)
        /\ ~(i >= c /\ i < d)] :
        a \in 0..NumPfaFrames, k \in 0..MaxRun,
        c \in 0..NumPfaFrames, d \in 0..NumPfaFrames}

PfaMemories(bitmaps) ==
    {[base |-> b * PAGE_SIZE_4K, length |-> NumPfaFrames * PAGE_SIZE_4K,
      at |-> b * PAGE_SIZE_4K, bitmap |-> bm] :
        b \in {0, 1, 8}, bm \in bitmaps}

\* A call of the allocator that is about to be made: the allocator it
\* finds and its arguments.
PfaCall(call, M, args, map) ==
    [on |-> FALSE, call |-> call, done |-> FALSE, memory |-> M,
     old |-> M, args |-> args, boot_info |-> map, ret |-> 0]

PfaCalls ==
    {PfaCall("page_frame_allocator_init", NoMemory, NoArgs, map) :
        map \in MemoryMaps}
    \cup {PfaCall("find_free_frames", M, [NoArgs EXCEPT !.n = n], <<>>) :
            M \in PfaMemories(PfaBitmaps), n \in 1..MaxRun}
    \cup {PfaCall("set_frame_lock", M,
                  [frame |-> M.base + f * PAGE_SIZE_4K + off, n |-> n,
                   lock |-> lock], <<>>) :
            M \in PfaMemories({[i \in BitsOf(NumPfaFrames) |-> FALSE],
                               [i \in BitsOf(NumPfaFrames) |->
                                   i < NumPfaFrames],
                               [i \in BitsOf(NumPfaFrames) |->
                                   i < NumPfaFrames /\ i % 2 = 0]}),
            f \in (0 - 1)..NumPfaFrames, off \in {0, 1},
            n \in 1..(NumPfaFrames \div 2 + 1), lock \in BOOLEAN}

\* ------------------------------------------------------------ heap.c
\* The kernel heap: the block headers lie at addresses of the heap, each
\* before its payload.  A heap is the record of heap_start, heap_end,
\* first_block, last_block, the headers by address (0: NULL), and the
\* frames find_free_frames still has.
sizeof_heap_block == 32
MaxHeapPages == 2
HeapSizes == {1500, 4064, 5000}

\* heap_split_block with the header of the second block not counted.
heap_split_block_no_header(Hp, first, size) ==
    LET second == first + sizeof_heap_block + size
        nxt == Hp.block[first].next
        b1 == [a \in DOMAIN Hp.block \cup {second} |->
                 IF a = second
                 THEN [used |-> FALSE, previous |-> first, next |-> nxt,
                       size |-> Hp.block[first].size - size]
                 ELSE IF a = first
                 THEN [Hp.block[a] EXCEPT !.next = second, !.size = size]
                 ELSE IF a = nxt
                 THEN [Hp.block[a] EXCEPT !.previous = second]
                 ELSE Hp.block[a]]
    IN  [Hp EXCEPT !.block = b1,
                   !.last_block = IF @ = first THEN second ELSE @]

heap_split_block(Hp, first, size) ==
    LET second == first + sizeof_heap_block + size
        second_size == Hp.block[first].size - size - sizeof_heap_block
        nxt == Hp.block[first].next
        b1 == [a \in DOMAIN Hp.block \cup {second} |->
                 IF a = second
                 THEN [used |-> FALSE, previous |-> first, next |-> nxt,
                       size |-> second_size]
                 ELSE IF a = first
                 THEN [Hp.block[a] EXCEPT !.next = second, !.size = size]
                 ELSE IF a = nxt
                 THEN [Hp.block[a] EXCEPT !.previous = second]
                 ELSE Hp.block[a]]
    IN  [Hp EXCEPT !.block = b1,
                   !.last_block = IF @ = first THEN second ELSE @]

\* The header of second is payload of first from then on.
heap_merge_blocks(Hp, first, second) ==
    LET nxt == Hp.block[second].next
        b1 == [a \in DOMAIN Hp.block \ {second} |->
                 IF a = nxt /\ a # first
                 THEN [Hp.block[a] EXCEPT !.previous = first]
                 ELSE IF a = first
                 THEN [Hp.block[a] EXCEPT
                         !.next = nxt,
                         !.size = @ + Hp.block[second].size
                                    + sizeof_heap_block]
                 ELSE Hp.block[a]]
    IN  [Hp EXCEPT !.block = b1,
                   !.last_block = IF @ = second THEN first ELSE @]

\* expand_heap: the heap after it and whether it returned true.  heap_init
\* has run, so last_block is not NULL.
expand_heap(Hp) ==
    IF Hp.frames = 0
    THEN [heap |-> Hp, ok |-> FALSE]
    ELSE LET blk == Hp.heap_end
             H1 == [Hp EXCEPT
                      !.frames = @ - 1,
                      !.heap_end = @ + PAGE_SIZE_4K,
                      !.block = [a \in DOMAIN Hp.block \cup {blk} |->
                                   IF a = blk
                                   THEN [used |-> FALSE,
                                         previous |-> Hp.last_block,
                                         next |-> 0,
                                         size |-> PAGE_SIZE_4K
                                                    - sizeof_heap_block]
                                   ELSE Hp.block[a]]]
         IN  [heap |-> IF ~Hp.block[Hp.last_block].used
                       THEN heap_merge_blocks(H1, Hp.last_block, blk)
                       ELSE [H1 EXCEPT !.block[Hp.last_block].next = blk,
                                       !.last_block = blk],
              ok |-> TRUE]

\* do_malloc, the loop from block i: the heap and the block (0: NULL).
RECURSIVE do_malloc(_, _, _)
do_malloc(Hp, size, i) ==
    IF i = 0
    THEN [heap |-> Hp, block |-> 0]
    ELSE IF ~Hp.block[i].used /\ Hp.block[i].size >= size
    THEN LET H1 == IF Hp.block[i].size > size + 2 * sizeof_heap_block
                   THEN heap_split_block(Hp, i, size)
                   ELSE Hp
         IN  [heap |-> [H1 EXCEPT !.block[i].used = TRUE], block |-> i]
    ELSE do_malloc(Hp, size, Hp.block[i].next)

\* malloc: the heap and the pointer it returns (0: NULL).
RECURSIVE malloc(_, _)
malloc(Hp, size) ==
    LET r == do_malloc(Hp, size, Hp.first_block)
    IN  IF r.block # 0
        THEN [heap |-> r.heap, ptr |-> r.block + sizeof_heap_block]
        ELSE LET e == expand_heap(Hp)
             IN  IF ~e.ok
                 THEN [heap |-> e.heap, ptr |-> 0]
                 ELSE malloc(e.heap, size)

free(Hp, ptr) ==
    LET i == ptr - sizeof_heap_block
    IN  IF i < Hp.heap_start \/ i >= Hp.heap_end
        THEN Hp
        ELSE LET H1 == [Hp EXCEPT !.block[i].used = FALSE]
                 nxt == H1.block[i].next
                 H2 == IF nxt # 0 /\ ~H1.block[nxt].used
                       THEN heap_merge_blocks(H1, i, nxt)
                       ELSE H1
                 prv == H2.block[i].previous
             IN  IF prv # 0 /\ ~H2.block[prv].used
                 THEN heap_merge_blocks(H2, prv, i)
                 ELSE H2

\* heap_init, with the heap at heap_start: one free block of one page.
heap_init(heap_start) ==
    [heap_start |-> heap_start,
     heap_end |-> heap_start + PAGE_SIZE_4K,
     first_block |-> heap_start,
     last_block |-> heap_start,
     frames |-> MaxHeapPages - 1,
     block |-> [a \in {heap_start} |->
                  [used |-> FALSE, previous |-> 0, next |-> 0,
                   size |-> PAGE_SIZE_4K - sizeof_heap_block]]]

\* -------------------------------------- page tables of four levels
\* The tables of both backends, entry by entry.  A frame is a table of
\* EntriesPerTable entries; an address is the number of its frame and 0 is
\* NULL, where there is memory too.  The root is frame 1, the last two
\* frames hold data.  A virtual address is its four indices.  The reference
\* counts are left to the frames above.
NumTableFrames == 7
EntriesPerTable == 2
TFrames == 0..(NumTableFrames + 2)
Root == 1
DataFrames == {NumTableFrames + 1, NumTableFrames + 2}
Index == 0..(EntriesPerTable - 1)
VAddrs == {<<0, 0, 0, 0>>, <<0, 1, 0, 1>>}
GenericFlags == {{"user", "write"}, {"user"}}

NoEntry == [present |-> FALSE, address |-> 0, attr |-> {}]

Halt(T) == [T EXCEPT !.halted = TRUE]

\* find_free_frames(1) among the frames of the tables.
FreeTable(T) ==
    IF \E f \in 1..NumTableFrames : ~T.bitmap[f]
    THEN CHOOSE f \in 1..NumTableFrames :
            ~T.bitmap[f] /\ \A g \in 1..NumTableFrames : ~T.bitmap[g] => f <= g
    ELSE 0 - 1

\* x86_64 paging_create_table: the tables after it and the pointer.
x64_create_table(T) ==
    LET table == FreeTable(T)
    IN  IF table = 0 - 1
        THEN [T |-> T, table |-> 0]
        ELSE [T |-> [T EXCEPT !.bitmap[table] = TRUE,
                              !.mem[table] = [i \in Index |-> NoEntry]],
              table |-> table]

\* AArch64 paging_create_table: it returns NULL when find_free_frames found
\* a frame; with none it clears the page at the address -1.
a64_create_table(T) ==
    LET table == FreeTable(T)
    IN  IF table # 0 - 1
        THEN [T |-> T, table |-> 0]
        ELSE [T |-> Halt(T), table |-> 0]

\* paging_flags_to_arch of each backend, as the set of the bits set.
x64_flags(flags) ==
    LET e == paging_flags_to_arch(flags)
    IN  (IF e.write THEN {"write"} ELSE {})
        \cup (IF e.user THEN {"user"} ELSE {})
        \cup (IF e.cow THEN {"cow"} ELSE {})

a64_flags(flags) ==
    {"af"} \cup (IF "user" \in flags THEN {"user"} ELSE {})
           \cup (IF "write" \notin flags THEN {"ro"} ELSE {})

\* One level of paging_map_page: the table the entry idx of table leads
\* to, created where the entry is not present.  An access through NULL
\* faults or reaches the memory at 0 (ub).  On AArch64 the link made at
\* the second level holds the address of pud, the table it lies in.
map_level(T, table, idx, level, ub) ==
    IF T.halted
    THEN [T |-> T, table |-> 0]
    ELSE IF table = 0 /\ ub = "fault"
    THEN [T |-> Halt(T), table |-> 0]
    ELSE LET e == T.mem[table][idx]
         IN  IF T.arch = "x86_64"
             THEN IF e.address = 0 \/ ~e.present
                  THEN LET r == x64_create_table(T)
                       IN  [T |-> [r.T EXCEPT !.mem[table][idx] =
                                     [present |-> TRUE, address |-> r.table,
                                      attr |-> {"write", "user"}]],
                            table |-> r.table]
                  ELSE [T |-> T, table |-> e.address]
             ELSE IF e.present
                  THEN [T |-> T, table |-> e.address]
                  ELSE LET r == a64_create_table(T)
                       IN  [T |-> [r.T EXCEPT !.mem[table][idx] =
                                     [present |-> TRUE,
                                      address |-> IF level = 2 THEN table
                                                  ELSE r.table,
                                      attr |-> e.attr \cup {"table_block"}]],
                            table |-> r.table]

\* paging_map_page of the backend of T.
map_page(T, v, paddr, flags, ub) ==
    LET s1 == map_level(T, Root, v[1], 1, ub)
        s2 == map_level(s1.T, s1.table, v[2], 2, ub)
        s3 == map_level(s2.T, s2.table, v[3], 3, ub)
    IN  IF s3.T.halted
        THEN s3.T
        ELSE IF s3.table = 0 /\ ub = "fault"
        THEN Halt(s3.T)
        ELSE [s3.T EXCEPT !.mem[s3.table][v[4]] =
                [present |-> TRUE, address |-> paddr,
                 attr |-> IF T.arch = "x86_64" THEN x64_flags(flags)
                          ELSE a64_flags(flags) \cup {"table_block"}]]

\* paging_unmap_page of the backend of T.
unmap_page(T, v, ub) ==
    LET e1 == T.mem[Root][v[1]]
        e2 == T.mem[e1.address][v[2]]
        e3 == T.mem[e2.address][v[3]]
        null == T.arch = "x86_64"
                /\ (e1.address = 0 \/ e2.address = 0 \/ e3.address = 0)
    IN  IF ~e1.present THEN T
        ELSE IF e1.address = 0 /\ (T.arch = "x86_64" \/ ub = "fault")
        THEN IF T.arch = "x86_64" THEN T ELSE Halt(T)
        ELSE IF ~e2.present THEN T
        ELSE IF e2.address = 0 /\ (T.arch = "x86_64" \/ ub = "fault")
        THEN IF T.arch = "x86_64" THEN T ELSE Halt(T)
        ELSE IF ~e3.present THEN T
        ELSE IF e3.address = 0 /\ (T.arch = "x86_64" \/ ub = "fault")
        THEN IF T.arch = "x86_64" THEN T ELSE Halt(T)
        ELSE IF T.arch = "x86_64"
        THEN IF ~T.mem[e3.address][v[4]].present THEN T
             ELSE [T EXCEPT !.mem[e3.address][v[4]] = NoEntry]
        ELSE [T EXCEPT !.mem[e3.address][v[4]].present = FALSE]

\* The tables a backend starts with: the root, empty, and the data frames.
BootTables(arch) ==
    [on |-> FALSE, call |-> "paging", arch |-> arch, halted |-> FALSE,
     bitmap |-> [f \in TFrames |-> f = Root \/ f \in DataFrames],
     mem |-> [f \in TFrames |-> [i \in Index |-> NoEntry]]]

\* ------------------------------ address spaces of x86_64, by level
\* The tables of the kernel and of the processes with their four levels.  A
\* table has an entry for each index of Idx; a virtual address is its four
\* indices, and its 64 bits are <<bits 63..48, pml4, pdpt, pd, pt>>, ordered
\* as the numbers are.  A frame is named by its number, 0 is NULL.  What the
\* data frames hold is not followed here; ops counts the calls made.
NumSpaceFrames == 40
MaxSpaceOps == 6
SpaceFrames == 1..NumSpaceFrames
Idx == {0, 447, 448, 511}
IdxSeq == <<0, 447, 448, 511>>
SpaceProcs == {Parent, Child, Child + 1}

\* KERNEL_BASE of task.c, 0xfffffffff8000000.
KERNEL_BASE_64 == <<65535, 511, 511, 448, 0>>

\* (uint64_t)pml4_i << 39 | pdpt_i << 30 | pd_i << 21 | pt_i << 12: the
\* bits above 47 are clear.
ShiftedAddr(v) == <<0, v[1], v[2], v[3], v[4]>>

\* The address the processor translates with these indices.
Canonical(v) == <<IF v[1] >= 256 THEN 65535 ELSE 0, v[1], v[2], v[3], v[4]>>

\* a >= b of two addresses.
AddrGE(a, b) ==
    \/ a = b
    \/ \E k \in 1..5 : a[k] > b[k] /\ \A j \in 1..(k - 1) : a[j] = b[j]

KernelHalf(v) == AddrGE(Canonical(v), KERNEL_BASE_64)

UserCode == <<0, 0, 0, 0>>
UserStack == <<511, 511, 447, 511>>
KernelText == <<511, 511, 448, 0>>
KernelHeap == <<511, 511, 448, 447>>
KernelFar == <<511, 511, 511, 0>>
AllAddrs == {<<a, b, c, d>> : a \in Idx, b \in Idx, c \in Idx, d \in Idx}

P_KERNEL_WRITE == {"write"}
TABLE_DEFAULT == [present |-> TRUE, write |-> TRUE, user |-> TRUE,
                  cow |-> FALSE, frame |-> 0]

EmptyTable == [i \in Idx |-> NoPte]

FreeSpaceFrames(S) == {f \in SpaceFrames : ~S.bitmap[f]}

\* find_free_frames(1) over the frames of this memory.
space_find_free_frame(S) ==
    IF FreeSpaceFrames(S) # {}
    THEN CHOOSE f \in FreeSpaceFrames(S) :
            \A g \in FreeSpaceFrames(S) : f <= g
    ELSE 0 - 1

\* paging_create_table, with the table as the frame number (0: NULL).
space_create_table(S) ==
    LET table == space_find_free_frame(S)
    IN  IF table = 0 - 1
        THEN [S |-> S, table |-> 0]
        ELSE [S |-> [S EXCEPT !.bitmap[table] = TRUE,
                              !.mem[table] = EmptyTable],
              table |-> table]

\* The step of paging_map_page at one level: the table the entry leads
\* to, created where it is missing.
space_next_table(S, table, i) ==
    LET e == S.mem[table][i]
    IN  IF e.frame = 0 \/ ~e.present
        THEN LET r == space_create_table(S)
             IN  [S |-> [r.S EXCEPT !.mem[table][i] =
                            [TABLE_DEFAULT EXCEPT !.frame = r.table]],
                  table |-> r.table]
        ELSE [S |-> S, table |-> e.frame]

\* paging_map_page(pml4, vaddr, paddr, flags).
space_map_page(S, pml4, v, paddr, flags) ==
    LET s1 == space_next_table(S, pml4, v[1])
        s2 == space_next_table(s1.S, s1.table, v[2])
        s3 == space_next_table(s2.S, s2.table, v[3])
    IN  frame_ref_inc(
            [s3.S EXCEPT !.mem[s3.table][v[4]] =
                [paging_flags_to_arch(flags) EXCEPT !.frame = paddr]],
            paddr)

\* paging_clone_higher_half(src, dst).
paging_clone_higher_half(S, src, dst) ==
    LET r1 == space_create_table(S)
        S1 == [r1.S EXCEPT !.mem[dst][511] =
                  [TABLE_DEFAULT EXCEPT !.frame = r1.table]]
        r2 == space_create_table(S1)
        S2 == [r2.S EXCEPT !.mem[r1.table][511] =
                  [TABLE_DEFAULT EXCEPT !.frame = r2.table]]
        src_pdpt == S2.mem[src][511].frame
        src_pd == S2.mem[src_pdpt][511].frame
    IN  [S2 EXCEPT !.mem[r2.table] =
            [i \in Idx |-> IF i >= 448 THEN S2.mem[src_pd][i] ELSE @[i]]]

\* task_new_address_space(proc).
space_new_address_space(S, p) ==
    LET r == space_create_table(S)
    IN  IF r.table = 0
        THEN S
        ELSE [paging_clone_higher_half(r.S, S.tables, r.table)
                EXCEPT !.root[p] = r.table]

\* clone_user_space_cow, the loop of one level from the k-th index on:
\* src and dst are the tables of the level, prefix the indices above.
RECURSIVE clone_level(_, _, _, _, _)
clone_level(S, src, dst, prefix, k) ==
    IF k > Len(IdxSeq)
    THEN S
    ELSE LET i == IdxSeq[k]
             entry == S.mem[src][i]
             level == Len(prefix) + 1
             addr == ShiftedAddr(prefix \o <<i>>
                                 \o [j \in 1..(4 - level) |-> 0])
         IN  IF ~entry.present
             THEN clone_level(S, src, dst, prefix, k + 1)
             ELSE IF AddrGE(addr, KERNEL_BASE_64)
             THEN S
             ELSE IF level < 4
             THEN LET r == space_create_table(S)
                      S1 == [r.S EXCEPT !.mem[dst][i] =
                               [TABLE_DEFAULT EXCEPT !.frame = r.table]]
                      S2 == clone_level(S1, entry.frame, r.table,
                                        prefix \o <<i>>, 1)
                  IN  clone_level(S2, src, dst, prefix, k + 1)
             ELSE LET flags == IF entry.write
                               THEN [entry EXCEPT !.write = FALSE,
                                                  !.cow = TRUE]
                               ELSE entry
                      S1 == [S EXCEPT !.mem[src][i] = flags]
                      S2 == [S1 EXCEPT !.mem[dst][i] = flags]
                  IN  clone_level(frame_ref_inc(S2, entry.frame), src, dst,
                                  prefix, k + 1)

\* task_free_address_space, the loop of one level from the k-th index on.
\* The loop over a page table compares no address.
RECURSIVE free_level(_, _, _, _)
free_level(S, table, prefix, k) ==
    IF k > Len(IdxSeq)
    THEN S
    ELSE LET i == IdxSeq[k]
             entry == S.mem[table][i]
             level == Len(prefix) + 1
             addr == ShiftedAddr(prefix \o <<i>>
                                 \o [j \in 1..(4 - level) |-> 0])
         IN  IF level < 4
             THEN IF AddrGE(addr, KERNEL_BASE_64)
                  THEN S
                  ELSE IF ~entry.present
                  THEN free_level(S, table, prefix, k + 1)
                  ELSE LET S1 == free_level(S, entry.frame,
                                            prefix \o <<i>>, 1)
                           S2 == set_frame_lock(S1, entry.frame, FALSE)
                       IN  free_level(S2, table, prefix, k + 1)
             ELSE IF ~entry.present
             THEN free_level(S, table, prefix, k + 1)
             ELSE LET S1 == frame_ref_dec(S, entry.frame)
                      S2 == IF S1.refcount[entry.frame] = 0
                            THEN set_frame_lock(S1, entry.frame, FALSE)
                            ELSE S1
                  IN  free_level(S2, table, prefix, k + 1)

\* task_free_address_space(pml4): the loops, then the tables of the last
\* entry of the root, then the root.
space_free_address_space(S, pml4) ==
    IF pml4 = 0
    THEN S
    ELSE LET S1 == free_level(S, pml4, <<>>, 1)
             e1 == S1.mem[pml4][511]
             e2 == S1.mem[e1.frame][511]
             S2 == IF e1.present /\ e2.present
                   THEN set_frame_lock(S1, e2.frame, FALSE)
                   ELSE S1
             S3 == IF e1.present
                   THEN set_frame_lock(S2, e1.frame, FALSE)
                   ELSE S2
         IN  set_frame_lock(S3, pml4, FALSE)

\* The walk of the processor from the root pml4 at v: the leaf, NoPte where
\* a level is not present.
Leaf(S, pml4, v) ==
    LET e1 == S.mem[pml4][v[1]]
        e2 == S.mem[e1.frame][v[2]]
        e3 == S.mem[e2.frame][v[3]]
    IN  IF pml4 # 0 /\ e1.present /\ e1.frame # 0 /\ e2.present
           /\ e2.frame # 0 /\ e3.present /\ e3.frame # 0
        THEN S.mem[e3.frame][v[4]]
        ELSE NoPte

\* handle_page_fault of process p with cr2 at v; the copy of the bytes is
\* followed above.
space_page_fault(S, p, v) ==
    LET entry == Leaf(S, S.root[p], v)
        new_paddr == space_find_free_frame(S)
    IN  IF ~entry.present \/ ~entry.cow
        THEN Panic(S)
        ELSE IF new_paddr = 0 - 1
        THEN Panic(S)
        ELSE frame_ref_dec(
                 space_map_page(set_frame_lock(S, new_paddr, TRUE), S.root[p],
                                v, new_paddr, P_USER_WRITE),
                 entry.frame)

\* A page found free, locked and mapped at v: load_elf maps a segment into
\* the tables of the kernel and of the process, task_alloc_stack the stack
\* into those of the process, expand_heap a page into those of the kernel.
space_load_elf(S, p, v) ==
    LET pages == space_find_free_frame(S)
        S1 == set_frame_lock(S, pages, TRUE)
        S2 == space_map_page(S1, S1.tables, v, pages, P_USER_WRITE)
    IN  IF pages = 0 - 1 THEN S
        ELSE space_map_page(S2, S2.root[p], v, pages, P_USER_WRITE)

space_alloc_stack(S, p, v) ==
    LET stack == space_find_free_frame(S)
    IN  IF stack = 0 - 1 THEN S
        ELSE space_map_page(set_frame_lock(S, stack, TRUE), S.root[p], v,
                            stack, P_USER_WRITE)

space_expand_heap(S, v) ==
    LET page == space_find_free_frame(S)
    IN  IF page = 0 - 1 THEN S
        ELSE space_map_page(set_frame_lock(S, page, TRUE), S.tables, v,
                            page, P_KERNEL_WRITE)

\* The tables the boot loader hands over: the kernel is mapped at
\* KERNEL_BASE, its text in frame 5, through the tables in the frames 1 to
\* 4; no reference was counted for them.
LoaderTables ==
    [on |-> FALSE, call |-> "spaces", panic |-> FALSE, tables |-> 1,
     ops |-> 0,
     root |-> [p \in SpaceProcs |-> 0],
     bitmap |-> [f \in SpaceFrames |-> f <= 5],
     refcount |-> [f \in SpaceFrames |-> 0],
     mem |-> [f \in SpaceFrames |->
                IF f = 1 THEN [EmptyTable EXCEPT ![511] =
                                 [TABLE_DEFAULT EXCEPT !.frame = 2]]
                ELSE IF f = 2 THEN [EmptyTable EXCEPT ![511] =
                                      [TABLE_DEFAULT EXCEPT !.frame = 3]]
                ELSE IF f = 3 THEN [EmptyTable EXCEPT ![448] =
                                      [TABLE_DEFAULT EXCEPT !.frame = 4]]
                ELSE IF f = 4 THEN [EmptyTable EXCEPT ![0] =
                                      [paging_flags_to_arch(P_KERNEL_WRITE)
                                         EXCEPT !.frame = 5]]
                ELSE EmptyTable]]

\* The first process: its address space, its image and its stack.
FirstSpace ==
    space_alloc_stack(
        space_load_elf(space_new_address_space(LoaderTables, Parent),
                       Parent, UserCode),
        Parent, UserStack)

\* ------------------------------------------- the stacks of threads
\* Threads with their user stacks on the page-frame allocator of memory.c.
\* Pointers have the 31 bits of UINTPTR_MAX here; KERNEL_BASE is 2^27 below
\* the top of the address space, as 0xfffffffff8000000 is with 64 bits.
TASK_DEFAULT_STACK_PAGES == 4
TASK_DEFAULT_STACK_SIZE == TASK_DEFAULT_STACK_PAGES * PAGE_SIZE_4K
KERNEL_BASE_PTR == UINTPTR_MAX - 134217727
NumStackFrames == 40
MaxStackThreads == 4
MaxStackProcs == 3
MaxStackOps == 4

\* The bit of the frame at addr in the bitmap of M.
BitOf(M, addr) == (addr - M.base) \div PAGE_SIZE_4K

\* task_alloc_stack(t) of a thread with the id: the allocator after it, and
\* the thread's stack (a virtual address) and the frames behind it.
stack_alloc(M, id, old) ==
    LET vstack == KERNEL_BASE_PTR - TASK_DEFAULT_STACK_SIZE * id
        stack == find_free_frames_n(M, TASK_DEFAULT_STACK_PAGES)
        r == set_frame_lock_n(M, stack, TASK_DEFAULT_STACK_PAGES, TRUE)
    IN  IF stack = 0 - 1 \/ r.ret < 0
        THEN [memory |-> M, stack |-> old]
        ELSE [memory |-> r.memory,
              stack |-> [vstack |-> vstack, frames |-> stack]]

\* V holds the kernel objects K, the process list, the allocator, per
\* thread the stack, and as history the allocations made (the address, the
\* number of frames, whether the owner still holds them) and the processes
\* freed, in the order of their free().
\* task_new_thread with its task_alloc_stack.
stack_new_thread(V, proc) ==
    LET id == V.K.process[proc].next_tid
        a == stack_alloc(V.memory, id, [vstack |-> 0, frames |-> 0 - 1])
    IN  [V EXCEPT !.K = task_new_thread(V.K, proc, 20, 0),
                  !.memory = a.memory,
                  !.stack = Append(@, a.stack),
                  !.allocs = Append(@, [addr |-> a.stack.frames,
                                        n |-> TASK_DEFAULT_STACK_PAGES,
                                        held |-> TRUE, thread |-> Len(V.stack) + 1])]

\* task_delete_thread: set_frame_lock gets thread->stack, the virtual
\* address task_alloc_stack stored.
stack_delete_thread(V, t) ==
    [V EXCEPT !.K = task_delete_thread(V.K, t),
              !.memory = set_frame_lock_n(V.memory, V.stack[t].vstack,
                                          TASK_DEFAULT_STACK_PAGES,
                                          FALSE).memory,
              !.allocs = [i \in DOMAIN @ |->
                            IF @[i].thread = t THEN [@[i] EXCEPT !.held = FALSE]
                            ELSE @[i]]]

\* task_fork: child_thread->stack = thread->stack.
stack_fork(V, t) ==
    [V EXCEPT !.K = task_fork(V.K, t, Len(V.K.process) + 1),
              !.processes = list_insert_tail(@, Len(V.K.process) + 1),
              !.stack = Append(@, V.stack[t])]

\* task_delete_process(proc) with its two loops; list_pop of a list whose
\* length is not 0 and that has no node returns NULL, and the kernel
\* stops at the access through it.
RECURSIVE task_delete_process(_, _)
RECURSIVE delete_process_threads(_, _)
RECURSIVE delete_process_children(_, _)
delete_process_threads(V, proc) ==
    IF V.halted \/ V.K.process[proc].threads.length = 0
    THEN V
    ELSE LET r == list_pop(V.K.process[proc].threads)
             V1 == [V EXCEPT !.K.process[proc].threads = r.list]
         IN  IF r.value = 0
             THEN Halt(V1)
             ELSE delete_process_threads(stack_delete_thread(V1, r.value),
                                         proc)

delete_process_children(V, proc) ==
    IF V.halted \/ V.K.process[proc].children.length = 0
    THEN V
    ELSE LET r == list_pop(V.K.process[proc].children)
             V1 == [V EXCEPT !.K.process[proc].children = r.list]
         IN  IF r.value = 0
             THEN Halt(V1)
             ELSE delete_process_children(task_delete_process(V1, r.value),
                                          proc)

task_delete_process(V, proc) ==
    LET n == list_find(V.processes, proc)
        V1 == IF n # 0 THEN [V EXCEPT !.processes = list_delete(@, n)]
              ELSE V
        V2 == delete_process_children(delete_process_threads(V1, proc), proc)
    IN  IF V2.halted THEN V2 ELSE [V2 EXCEPT !.gone = Append(@, proc)]

\* The loop of task_exec that deletes the other threads of the process.
RECURSIVE stack_delete_others(_, _, _)
stack_delete_others(V, ts, t) ==
    IF ts = <<>>
    THEN V
    ELSE stack_delete_others(IF Head(ts) # t
                             THEN stack_delete_thread(V, Head(ts))
                             ELSE V,
                             Tail(ts), t)

\* task_exec up to task_alloc_stack.
stack_exec(V, t) ==
    LET proc == V.K.thread[t].proc
        V1 == stack_delete_others(V, V.K.process[proc].threads.items, t)
        V2 == [V1 EXCEPT !.K = task_exec(V1.K, t, "/bin/one", 0).K]
        M1 == set_frame_lock_n(V2.memory, V2.stack[t].vstack,
                               TASK_DEFAULT_STACK_PAGES, FALSE).memory
        a == stack_alloc(M1, V2.K.thread[t].id, V2.stack[t])
    IN  [V2 EXCEPT !.memory = a.memory,
                   !.stack[t] = a.stack,
                   !.allocs = Append(
                       [i \in DOMAIN @ |->
                           IF @[i].thread = t THEN [@[i] EXCEPT !.held = FALSE]
                           ELSE @[i]],
                       [addr |-> a.stack.frames,
                        n |-> TASK_DEFAULT_STACK_PAGES,
                        held |-> TRUE, thread |-> t])]

\* The allocator the first process is made on: memory from address 0, the
\* frames below low in use by the kernel but for the frame hole (a page of
\* conventional memory among reserved ones), the frames from low on free.
StackMemories ==
    {[base |-> 0, length |-> NumStackFrames * PAGE_SIZE_4K, at |-> 0,
      bitmap |-> [i \in BitsOf(NumStackFrames) |->
                    (i < low /\ i # hole) \/ i >= NumStackFrames]] :
        low \in {0, 4, 12}, hole \in {0, 8, 99}}

\* The first process with its first thread on such an allocator.
FirstThread(M) ==
    LET p1 == [id |-> 1, syscall_callback |-> 0, threads |-> list_create,
               next_tid |-> 1, parent |-> 0, children |-> list_create]
        V0 == [on |-> FALSE, call |-> "stacks", ops |-> 0,
               K |-> [task_queue |-> list_create, thread |-> <<>>,
                      process |-> <<p1>>],
               memory |-> M, stack |-> <<>>, allocs |-> <<>>,
               found |-> [c \in Cores |-> 0 - 1],
               processes |-> list_insert_tail(list_create, 1),
               gone |-> <<>>, halted |-> FALSE]
    IN  stack_new_thread(V0, 1)

\* ------------------------------------------------ a list on its own
\* One struct list under its operations: the list, what the last list_find
\* returned (the position of the node, 0 for NULL), and the number of
\* operations made.
MaxListLen == 3
MaxListOps == 5
ListValues == 1..3
FirstList == [on |-> FALSE, call |-> "lists", ops |-> 0,
              list |-> list_create, found |-> 0]

\* ------------------------------------------------------------- Init
\* The state task_init leaves: process 1 with one thread, in the queue.
Boot(images) ==
    \E junk \in Junk, init_image \in images :
      LET p1 == [id |-> 1, syscall_callback |-> 0, threads |-> list_create,
                 next_tid |-> 1, parent |-> 0, children |-> list_create]
          K0 == [task_queue |-> list_create, thread |-> <<>>,
                 process |-> <<p1>>]
          K1 == task_new_thread(K0, 1, init_image.entry, junk)
      IN  /\ scheduler_enabled = FALSE
          /\ task_lock = 0
          /\ task_next_id = 2
          /\ processes = list_insert_tail(list_create, 1)
          /\ task_queue = K1.task_queue
          /\ thread = K1.thread
          /\ process = K1.process
          /\ syscall_services = list_insert_tail(list_create, syscall_kernel)
          /\ core_bases \in [Cores -> [thread : {0, WILD}]]
          /\ frame = [c \in Cores |-> idle_frame]
          /\ running = [c \in Cores |-> 0]
          /\ pc = [c \in Cores |-> "run"]
          /\ loc = [c \in Cores |-> NoLoc]
          /\ heap_failures = 0
          /\ registered = [name \in Names |-> 0]

Init == Boot(init_images) /\ vm = NoVm

\* ---------------------------------------------------------- actions
\* What the code core c returned to may call next.
Calls(c) == user_program(frame[c].rip)

Caller(c) == core_bases[c].thread

\* info->thread of core c, or the thread the call it is in has made, was
\* freed by another core.
Stale(c) ==
    \/ Caller(c) > 0 /\ thread[Caller(c)].freed
    \/ loc[c].t > 0 /\ thread[loc[c].t].freed

\* User code of a thread runs on core c and makes the call r.
User(c, r) ==
    /\ pc[c] = "run"
    /\ frame[c].rip < KERNEL_BASE
    /\ r \in user_program(frame[c].rip)
    /\ Caller(c) > 0
    /\ ~Stale(c)

\* The frame syscall_entry saves: user code goes on behind the call.
Entered(c) == [frame[c] EXCEPT !.rip = @ + 1]

SetKernel(K) ==
    /\ task_queue' = K.task_queue
    /\ thread' = K.thread
    /\ process' = K.process

task_enable_scheduler ==
    /\ ~scheduler_enabled
    /\ scheduler_enabled' = TRUE
    /\ UNCHANGED <<task_lock, task_next_id, processes, task_queue,
                   syscall_services, thread, process, core_bases, frame,
                   running, pc, loc, heap_failures, registered, vm>>

\* The timer interrupt: timer_tick calls task_switch, which returns at once
\* while the scheduler is off and else takes the lock.
timer_tick(c) ==
    /\ pc[c] = "run"
    /\ \/ /\ ~scheduler_enabled
          /\ UNCHANGED vars
       \/ /\ scheduler_enabled
          /\ task_lock = 0
          /\ ~Stale(c)
          /\ ~task_queue.tail_ok => task_queue.length < MaxLength
          /\ task_lock' = c
          /\ pc' = [pc EXCEPT ![c] = "switch"]
          /\ UNCHANGED <<scheduler_enabled, task_next_id, processes,
                         task_queue, syscall_services, thread, process,
                         core_bases, frame, running, loc, heap_failures,
                         registered, vm>>

\* task_switch with the lock held.  Reading info->thread->exiting through
\* a pointer that was never set faults: panic_handler halts the core, the
\* lock stays taken.
SwitchLocked(c) ==
    /\ pc[c] = "switch"
    /\ \/ /\ core_bases[c].thread = WILD
          /\ pc' = [pc EXCEPT ![c] = "panic"]
          /\ UNCHANGED <<scheduler_enabled, task_lock, task_next_id,
                         processes, task_queue, syscall_services, thread,
                         process, core_bases, frame, running, loc,
                         heap_failures, registered, vm>>
       \/ /\ core_bases[c].thread # WILD
          /\ LET r == task_switch(Kernel, core_bases[c].thread, frame[c],
                                  running[c])
                 first == r.running # 0 /\ r.running # running[c]
             IN  /\ task_queue' = r.K.task_queue
                 /\ process' = r.K.process
                 /\ thread' = IF first
                              THEN [r.K.thread EXCEPT ![r.running].req = NoReq]
                              ELSE r.K.thread
                 /\ core_bases' = [core_bases EXCEPT ![c].thread = r.thread]
                 /\ frame' = [frame EXCEPT ![c] = r.frame]
                 /\ running' = [running EXCEPT ![c] = r.running]
          /\ task_lock' = 0
          /\ pc' = [pc EXCEPT ![c] = "run"]
          /\ UNCHANGED <<scheduler_enabled, task_next_id, processes,
                         syscall_services, loc, heap_failures, registered, vm>>

\* Kernel code on core c reads or writes a struct thread that was freed:
\* on a timer tick or a call from user code, or in the call it is in.
UseAfterFree(c) ==
    /\ Stale(c)
    /\ \/ pc[c] \in {"push", "method_regs", "method_copy"}
       \/ pc[c] = "run" /\ (scheduler_enabled \/ Calls(c) # {})
    /\ pc' = [pc EXCEPT ![c] = "undefined"]
    /\ UNCHANGED <<scheduler_enabled, task_lock, task_next_id, processes,
                   task_queue, syscall_services, thread, process, core_bases,
                   frame, running, loc, heap_failures, registered, vm>>

\* syscall_handler, SYSCALL_EXIT: task_exit, then task_switch up to
\* spinlock_acquire (it returns at once while the scheduler is off).
SyscallExit(c) ==
    \E r \in Calls(c) :
        /\ User(c, r)
        /\ r.call = "EXIT"
        /\ scheduler_enabled => task_lock = 0
        /\ thread' = [thread EXCEPT ![Caller(c)].exiting = TRUE]
        /\ frame' = [frame EXCEPT ![c] = Entered(c)]
        /\ task_lock' = IF scheduler_enabled THEN c ELSE task_lock
        /\ pc' = [pc EXCEPT ![c] = IF scheduler_enabled THEN "switch"
                                   ELSE "run"]
        /\ loc' = [loc EXCEPT ![c] = NoLoc]
        /\ UNCHANGED <<scheduler_enabled, task_next_id, processes,
                       task_queue, syscall_services, process, core_bases,
                       running, heap_failures, registered, vm>>

\* syscall_handler reads info->thread->syscall_params on entry: with
\* info->thread NULL the read faults and panic_handler halts the core.
SyscallFault(c) ==
    \E r \in Calls(c) :
        /\ pc[c] = "run"
        /\ frame[c].rip < KERNEL_BASE
        /\ r \in user_program(frame[c].rip)
        /\ core_bases[c].thread = 0
        /\ frame' = [frame EXCEPT ![c] = Entered(c)]
        /\ pc' = [pc EXCEPT ![c] = "panic"]
        /\ UNCHANGED <<scheduler_enabled, task_lock, task_next_id, processes,
                       task_queue, syscall_services, thread, process, core_bases,
                       running, loc, heap_failures, registered, vm>>

\* syscall_handler, SYSCALL_PUSH: syscall_param_push up to its first malloc.
SyscallPush(c) ==
    \E r \in Calls(c) :
        /\ User(c, r)
        /\ r.call = "PUSH"
        /\ frame' = [frame EXCEPT ![c] = Entered(c)]
        /\ pc' = [pc EXCEPT ![c] = "push"]
        /\ loc' = [loc EXCEPT ![c] = [NoLoc EXCEPT !.call = r.call,
                                                    !.param = r.param,
                                                    !.at = r.at]]
        /\ UNCHANGED <<scheduler_enabled, task_lock, task_next_id, processes,
                       task_queue, syscall_services, thread, process, core_bases,
                       running, heap_failures, registered, vm>>

\* The rest of syscall_param_push and the return to user code.  oom names
\* the malloc that returns NULL: that of the copy, or that of the bytes of
\* an array the check of the pointer has let through.
PushFinish(c, oom) ==
    /\ pc[c] = "push"
    /\ ~Stale(c)
    /\ oom = "array" => /\ loc[c].param.type = SYSCALL_PARAM_ARRAY
                        /\ loc[c].param.value < KERNEL_BASE
    /\ oom # "none" => heap_failures < MaxFailures
    /\ LET params == thread[Caller(c)].syscall_params
           r == syscall_param_push(params, loc[c].param, oom)
       IN  /\ thread' = [thread EXCEPT
                            ![Caller(c)].syscall_params = r.params,
                            ![Caller(c)].pushed =
                                IF params.items = <<>> /\ r.rax = 0
                                THEN [param |-> loc[c].param,
                                      next |-> frame[c].rip]
                                ELSE NoPushed]
           /\ frame' = [frame EXCEPT ![c].rax = r.rax]
    /\ loc' = [loc EXCEPT ![c].touched =
                                PushReads(loc[c].param, loc[c].at, oom)]
    /\ heap_failures' = IF oom # "none" THEN heap_failures + 1
                        ELSE heap_failures
    /\ pc' = [pc EXCEPT ![c] = "run"]
    /\ UNCHANGED <<scheduler_enabled, task_lock, task_next_id, processes,
                   task_queue, syscall_services, process, core_bases, running,
                   registered, vm>>

\* syscall_handler, SYSCALL_PEEK.  With no node in the list params->head
\* is NULL and params->head->value is read at address 16: the read faults
\* and panic_handler halts the core ("fault"), or, where the process has
\* that page mapped, the read yields NULL ("null") or a pointer to bytes
\* that are then copied as if they were an argument ("wild").
SyscallPeek(c, ub) ==
    \E r \in Calls(c), junk \in Junk :
        /\ User(c, r)
        /\ r.call = "PEEK"
        /\ LET params == thread[Caller(c)].syscall_params
               wild == syscall_copy_param(
                           [type |-> SYSCALL_PARAM_PRIMITIVE, size |-> junk,
                            value |-> junk, array |-> ""], r.param, r.at)
               k == IF params.items # <<>>
                    THEN syscall_param_peek(params, r.param, r.at)
                    ELSE IF ub = "wild"
                    THEN [params |-> params, rax |-> wild.rax,
                          out |-> wild.out, touched |-> wild.touched]
                    ELSE [params |-> params, rax |-> 0 - 1, out |-> r.param,
                          touched |-> {}]
           IN  /\ (params.items # <<>>) = (ub = "none")
               /\ ub # "wild" => junk = 0
               /\ thread' = [thread EXCEPT
                                ![Caller(c)].syscall_params = k.params]
               /\ frame' = [frame EXCEPT ![c] =
                                IF ub = "fault" THEN Entered(c)
                                ELSE [Entered(c) EXCEPT !.rax = k.rax]]
               /\ loc' = [loc EXCEPT ![c] =
                                [NoLoc EXCEPT !.call = r.call,
                                              !.param = r.param, !.at = r.at,
                                              !.out = k.out,
                                              !.touched = k.touched]]
        /\ pc' = [pc EXCEPT ![c] = IF ub = "fault" THEN "panic" ELSE "run"]
        /\ UNCHANGED <<scheduler_enabled, task_lock, task_next_id, processes,
                       task_queue, syscall_services, process, core_bases,
                       running, heap_failures, registered, vm>>

\* syscall_handler, SYSCALL_POP.
SyscallPop(c) ==
    \E r \in Calls(c) :
        /\ User(c, r)
        /\ r.call = "POP"
        /\ LET k == syscall_param_pop(thread[Caller(c)].syscall_params,
                                      r.param, r.at)
           IN  /\ thread' = [thread EXCEPT
                                ![Caller(c)].syscall_params = k.params]
               /\ frame' = [frame EXCEPT ![c] =
                                [Entered(c) EXCEPT !.rax = k.rax]]
               /\ loc' = [loc EXCEPT ![c] =
                                [NoLoc EXCEPT !.call = r.call,
                                              !.param = r.param, !.at = r.at,
                                              !.out = k.out,
                                              !.touched = k.touched]]
        /\ UNCHANGED <<scheduler_enabled, task_lock, task_next_id, processes,
                       task_queue, syscall_services, process, core_bases,
                       running, pc, heap_failures, registered, vm>>

\* syscall_handler, a call number the switch has no case for
\* (SYSCALL_SIGNAL, SYSCALL_TARGETED_SIGNAL): frame->rax = -1.
SyscallDefault(c) ==
    \E r \in Calls(c) :
        /\ User(c, r)
        /\ r.call \in {"SIGNAL", "TARGETED_SIGNAL"}
        /\ frame' = [frame EXCEPT ![c] = [Entered(c) EXCEPT !.rax = 0 - 1]]
        /\ loc' = [loc EXCEPT ![c] = [NoLoc EXCEPT !.call = r.call,
                                                    !.data = r.data]]
        /\ UNCHANGED <<scheduler_enabled, task_lock, task_next_id, processes,
                       task_queue, syscall_services, thread, process,
                       core_bases, running, pc, heap_failures, registered, vm>>

\* The history of the names: RegisterDestination that returns the id of
\* the caller's process makes that process the last to have registered the
\* name, UnregisterDestination that returns 0 leaves the name unregistered.
Registered(data, items, rax, pid) ==
    IF /\ data.interface = SYSCALL_GLOBAL_NAME_SERVICE
       /\ items # <<>>
       /\ Head(items).array \in DOMAIN registered
    THEN CASE data.method = 1 /\ rax = pid ->
                [registered EXCEPT ![Head(items).array] = pid]
           [] data.method = 2 /\ rax = 0 ->
                [registered EXCEPT ![Head(items).array] = 0]
           [] OTHER -> registered
    ELSE registered

\* syscall_handler, SYSCALL_METHOD with data->pid == 0.
SyscallMethodKernel(c) ==
    \E r \in Calls(c) :
        /\ User(c, r)
        /\ r.call = "METHOD"
        /\ r.data.pid = 0
        /\ LET t == Caller(c)
               proc == thread[t].proc
               k == syscall_kernel_method(r.data.interface, r.data.method,
                                          thread[t].syscall_params,
                                          syscall_services,
                                          process[proc].syscall_callback,
                                          process[proc].id)
           IN  /\ thread' = [thread EXCEPT ![t].syscall_params = k.params,
                                            ![t].pushed = NoPushed]
               /\ syscall_services' = k.services
               /\ process' = [process EXCEPT ![proc].syscall_callback = k.callback]
               /\ frame' = [frame EXCEPT ![c] = [Entered(c) EXCEPT !.rax = k.rax]]
               /\ registered' =
                     Registered(r.data, thread[t].syscall_params.items,
                                k.rax, process[proc].id)
        /\ loc' = [loc EXCEPT ![c] = [NoLoc EXCEPT !.call = r.call,
                                                    !.data = r.data]]
        /\ UNCHANGED <<scheduler_enabled, task_lock, task_next_id, processes,
                       task_queue, core_bases, running, pc, heap_failures, vm>>

\* SYSCALL_METHOD to a pid that task_find_process does not find, or to a
\* process without syscall_callback.
SyscallMethodFail(c) ==
    \E r \in Calls(c) :
        /\ User(c, r)
        /\ r.call = "METHOD"
        /\ r.data.pid # 0
        /\ LET proc == task_find_process(r.data.pid)
           IN  IF proc = 0 THEN TRUE ELSE process[proc].syscall_callback = 0
        /\ frame' = [frame EXCEPT ![c] = [Entered(c) EXCEPT !.rax = 0 - 1]]
        /\ loc' = [loc EXCEPT ![c] = NoLoc]
        /\ UNCHANGED <<scheduler_enabled, task_lock, task_next_id, processes,
                       task_queue, syscall_services, thread, process,
                       core_bases, running, pc, heap_failures, registered, vm>>

\* SYSCALL_METHOD to a process with syscall_callback, up to the return of
\* task_new_thread.
SyscallMethod(c, junk) ==
    \E r \in Calls(c) :
        /\ User(c, r)
        /\ r.call = "METHOD"
        /\ r.data.pid # 0
        /\ Len(thread) < MaxThreads
        /\ LET proc == task_find_process(r.data.pid)
               t == Len(thread) + 1
           IN  /\ proc # 0
               /\ process[proc].syscall_callback # 0
               /\ LET K == task_new_thread(Kernel, proc,
                                           process[proc].syscall_callback,
                                           junk)
                      req == [handler |-> TRUE,
                              args |-> thread[Caller(c)].syscall_params.items,
                              interface |-> r.data.interface,
                              method |-> r.data.method,
                              caller |-> process[thread[Caller(c)].proc].id]
                  IN  SetKernel([K EXCEPT !.thread[t].req = req])
               /\ loc' = [loc EXCEPT ![c] =
                             [NoLoc EXCEPT
                                !.t = t, !.data = r.data,
                                !.args = thread[Caller(c)].syscall_params.items]]
        /\ frame' = [frame EXCEPT ![c] = Entered(c)]
        /\ pc' = [pc EXCEPT ![c] = "method_regs"]
        /\ UNCHANGED <<scheduler_enabled, task_lock, task_next_id, processes,
                       syscall_services, core_bases, running, heap_failures,
                       registered, vm>>

\* t->context->rdi = data->interface; t->context->rsi = data->method;
MethodRegs(c) ==
    /\ pc[c] = "method_regs"
    /\ ~Stale(c)
    /\ thread' = [thread EXCEPT
                    ![loc[c].t].context.rdi = loc[c].data.interface,
                    ![loc[c].t].context.rsi = loc[c].data.method]
    /\ pc' = [pc EXCEPT ![c] = "method_copy"]
    /\ UNCHANGED <<scheduler_enabled, task_lock, task_next_id, processes,
                   task_queue, syscall_services, process, core_bases, frame,
                   running, loc, heap_failures, registered, vm>>

\* syscall_copy_params(params, t->syscall_params); return -1;
MethodCopy(c) ==
    /\ pc[c] = "method_copy"
    /\ ~Stale(c)
    /\ LET k == syscall_copy_params(thread[Caller(c)].syscall_params,
                                    thread[loc[c].t].syscall_params)
       IN  thread' = [thread EXCEPT
                        ![Caller(c)].syscall_params = k.src,
                        ![Caller(c)].pushed = NoPushed,
                        ![loc[c].t].syscall_params = k.dst]
    /\ frame' = [frame EXCEPT ![c].rax = 0 - 1]
    /\ pc' = [pc EXCEPT ![c] = "run"]
    /\ loc' = [loc EXCEPT ![c] = NoLoc]
    /\ UNCHANGED <<scheduler_enabled, task_lock, task_next_id, processes,
                   task_queue, syscall_services, process, core_bases, running,
                   heap_failures, registered, vm>>

\* task_fork(info->thread) up to spinlock_acquire.
ForkAcquire(c) ==
    \E r \in Calls(c) :
        /\ User(c, r)
        /\ r.call = "task_fork"
        /\ task_lock = 0
        /\ Len(thread) < MaxThreads
        /\ Len(process) < MaxProcs
        /\ task_lock' = c
        /\ frame' = [frame EXCEPT ![c] = Entered(c)]
        /\ pc' = [pc EXCEPT ![c] = "fork"]
        /\ loc' = [loc EXCEPT ![c] = NoLoc]
        /\ UNCHANGED <<scheduler_enabled, task_next_id, processes,
                       task_queue, syscall_services, thread, process,
                       core_bases, running, heap_failures, registered, vm>>

\* task_fork with the lock held; where the address spaces are followed,
\* task_new_address_space and clone_user_space_cow act on them.
ForkLocked(c) ==
    /\ pc[c] = "fork"
    /\ SetKernel(task_fork(Kernel, Caller(c), task_next_id))
    /\ processes' = list_insert_tail(processes, task_next_id)
    /\ task_next_id' = task_next_id + 1
    /\ task_lock' = 0
    /\ pc' = [pc EXCEPT ![c] = "run"]
    /\ vm' = IF vm.on
             THEN [clone_user_space_cow(vm, Parent, Child, 0)
                     EXCEPT !.forked = TRUE,
                            !.prefork = [bitmap |-> vm.bitmap,
                                         refcount |-> vm.refcount,
                                         tables |-> vm.tables[Parent],
                                         mem |-> vm.mem]]
             ELSE vm
    /\ UNCHANGED <<scheduler_enabled, syscall_services, core_bases, frame,
                   running, loc, heap_failures, registered>>

\* task_exec(info->thread, path) of a path fs_find_node does not find.
ExecFail(c) ==
    \E r \in Calls(c) :
        /\ User(c, r)
        /\ r.call = "task_exec"
        /\ fs_find_node(r.param.bytes) < 0
        /\ frame' = [frame EXCEPT ![c] = [Entered(c) EXCEPT !.rax = 0 - 1]]
        /\ loc' = [loc EXCEPT ![c] = [NoLoc EXCEPT !.call = r.call,
                                                    !.path = r.param.bytes]]
        /\ UNCHANGED <<scheduler_enabled, task_lock, task_next_id, processes,
                       task_queue, syscall_services, thread, process,
                       core_bases, running, pc, heap_failures, registered,
                       vm>>

\* task_exec(info->thread, path) of a path fs_find_node finds, up to
\* spinlock_acquire.
ExecAcquire(c) ==
    \E r \in Calls(c) :
        /\ User(c, r)
        /\ r.call = "task_exec"
        /\ ~(fs_find_node(r.param.bytes) < 0)
        /\ task_lock = 0
        /\ task_lock' = c
        /\ frame' = [frame EXCEPT ![c] = Entered(c)]
        /\ pc' = [pc EXCEPT ![c] = "exec"]
        /\ loc' = [loc EXCEPT ![c] = [NoLoc EXCEPT !.call = r.call,
                                                    !.path = r.param.bytes]]
        /\ UNCHANGED <<scheduler_enabled, task_next_id, processes,
                       task_queue, syscall_services, thread, process,
                       core_bases, running, heap_failures, registered, vm>>

\* task_exec from spinlock_acquire to its return.
ExecLocked(c) ==
    /\ pc[c] = "exec"
    /\ \E junk \in Junk :
          LET k == task_exec(Kernel, Caller(c), loc[c].path, junk)
          IN  /\ SetKernel(k.K)
              /\ frame' = [frame EXCEPT ![c].rax = k.rax]
    /\ task_lock' = 0
    /\ pc' = [pc EXCEPT ![c] = "run"]
    /\ UNCHANGED <<scheduler_enabled, task_next_id, processes,
                   syscall_services, core_bases, running, loc, heap_failures,
                   registered, vm>>

Next ==
    \/ task_enable_scheduler
    \/ \E c \in Cores : timer_tick(c)
    \/ \E c \in Cores : SwitchLocked(c)
    \/ \E c \in Cores : UseAfterFree(c)
    \/ \E c \in Cores : SyscallExit(c)
    \/ \E c \in Cores : SyscallFault(c)
    \/ \E c \in Cores : SyscallPush(c)
    \/ \E c \in Cores, oom \in {"none", "copy", "array"} : PushFinish(c, oom)
    \/ \E c \in Cores : SyscallMethodKernel(c)
    \/ \E c \in Cores : SyscallMethodFail(c)
    \/ \E c \in Cores, junk \in Junk : SyscallMethod(c, junk)
    \/ \E c \in Cores : MethodRegs(c)
    \/ \E c \in Cores : MethodCopy(c)
    \/ \E c \in Cores : ForkAcquire(c)
    \/ \E c \in Cores : ForkLocked(c)
    \/ \E c \in Cores : ExecAcquire(c)
    \/ \E c \in Cores : ExecLocked(c)

Spec == Init /\ [][Next]_vars

\* The kernel under the image that pushes arguments and reads them back.
InitIpc == Boot(ipc_images) /\ vm = NoVm

NextIpc ==
    \/ task_enable_scheduler
    \/ \E c \in Cores : timer_tick(c)
    \/ \E c \in Cores : SwitchLocked(c)
    \/ \E c \in Cores : SyscallExit(c)
    \/ \E c \in Cores : SyscallPush(c)
    \/ \E c \in Cores, oom \in {"none", "copy", "array"} : PushFinish(c, oom)
    \/ \E c \in Cores, ub \in {"none", "fault", "null", "wild"} :
          SyscallPeek(c, ub)
    \/ \E c \in Cores : SyscallPop(c)

SpecIpc == InitIpc /\ [][NextIpc]_vars

\* The kernel under the image that registers a name, with a heap that
\* has room for every PUSH.
InitExec == Boot(exec_images) /\ vm = NoVm
NextExec ==
    \/ task_enable_scheduler
    \/ \E c \in Cores : timer_tick(c)
    \/ \E c \in Cores : SwitchLocked(c)
    \/ \E c \in Cores : SyscallExit(c)
    \/ \E c \in Cores : SyscallPush(c)
    \/ \E c \in Cores : PushFinish(c, "none")
    \/ \E c \in Cores : ForkAcquire(c)
    \/ \E c \in Cores : ForkLocked(c)
    \/ \E c \in Cores : ExecFail(c)
    \/ \E c \in Cores : ExecAcquire(c)
    \/ \E c \in Cores : ExecLocked(c)
SpecExec == InitExec /\ [][NextExec]_vars

\* ------------------------------------------- copy-on-write actions
VmUnchanged ==
    UNCHANGED <<scheduler_enabled, task_lock, task_next_id, processes,
                task_queue, syscall_services, thread, process, core_bases,
                frame, running, pc, loc, heap_failures, registered>>

\* The processes whose address space exists.
VmProcs == IF vm.forked THEN {Parent, Child} ELSE {Parent}

\* task_fork: task_new_address_space(child) and clone_user_space_cow.
CowFork ==
    /\ vm.on
    /\ ~vm.forked
    /\ ~vm.panic
    /\ vm.fault[Parent].stage = "none"
    /\ vm' = [clone_user_space_cow(vm, Parent, Child, 0)
                EXCEPT !.forked = TRUE]
    /\ VmUnchanged

\* User code of process p stores val at offset off of page: the store is
\* done, or the processor raises a page fault with cr2 at the address.
UserStore(p, page, off, val) ==
    /\ vm.on
    /\ ~vm.panic
    /\ p \in VmProcs
    /\ vm.fault[p].stage = "none"
    /\ vm' = IF MayStore(vm, p, page)
             THEN Store(vm, p, page, off, val)
             ELSE [vm EXCEPT !.fault[p] =
                     [stage |-> "raised", page |-> page, off |-> off,
                      val |-> val]]
    /\ VmUnchanged

\* isr_handler, vector 14: handle_page_fault.
PageFault(p) ==
    /\ vm.on
    /\ ~vm.panic
    /\ vm.fault[p].stage = "raised"
    /\ vm' = [handle_page_fault(vm, p, vm.fault[p].page, vm.fault[p].off)
                EXCEPT !.fault[p].stage = "retry"]
    /\ VmUnchanged

\* The handler has returned and the processor runs the store again.
StoreAgain(p) ==
    /\ vm.on
    /\ ~vm.panic
    /\ vm.fault[p].stage = "retry"
    /\ vm' = IF MayStore(vm, p, vm.fault[p].page)
             THEN [Store(vm, p, vm.fault[p].page, vm.fault[p].off,
                         vm.fault[p].val)
                     EXCEPT !.fault[p] = NoFault]
             ELSE [vm EXCEPT !.fault[p].stage = "raised"]
    /\ VmUnchanged

InitCow == Boot(exec_images) /\ vm \in BootVm
NextCow ==
    \/ CowFork
    \/ \E p \in {Parent, Child}, page \in Pages, off \in Offsets :
          UserStore(p, page, off, <<9, 9>>)
    \/ \E p \in {Parent, Child} : PageFault(p)
    \/ \E p \in {Parent, Child} : StoreAgain(p)
SpecCow == InitCow /\ [][NextCow]_vars

\* The kernel under the image that forks and exits, with the address
\* spaces followed.
InitForkExit == Boot(fork_exit_images) /\ vm \in BootVm
NextForkExit ==
    \/ task_enable_scheduler
    \/ \E c \in Cores : timer_tick(c)
    \/ \E c \in Cores : SwitchLocked(c)
    \/ \E c \in Cores : SyscallExit(c)
    \/ \E c \in Cores : SyscallPush(c)
    \/ \E c \in Cores : PushFinish(c, "none")
    \/ \E c \in Cores : ForkAcquire(c)
    \/ \E c \in Cores : ForkLocked(c)
SpecForkExit == InitForkExit /\ [][NextForkExit]_vars

\* --------------------------------------- page-frame allocator calls
\* The state before task_init: no process, no thread, the cores idle.
BeforeTasks ==
    /\ scheduler_enabled = FALSE
    /\ task_lock = 0
    /\ task_next_id = 1
    /\ processes = list_create
    /\ task_queue = list_create
    /\ thread = <<>>
    /\ process = <<>>
    /\ syscall_services = list_create
    /\ core_bases = [c \in Cores |-> [thread |-> 0]]
    /\ frame = [c \in Cores |-> idle_frame]
    /\ running = [c \in Cores |-> 0]
    /\ pc = [c \in Cores |-> "run"]
    /\ loc = [c \in Cores |-> NoLoc]
    /\ heap_failures = 0
    /\ registered = [name \in Names |-> 0]

page_frame_allocator_init ==
    /\ vm.call = "page_frame_allocator_init"
    /\ ~vm.done
    /\ vm' = [vm EXCEPT !.done = TRUE,
                        !.memory = pfa_init(vm.boot_info, vm.memory)]
    /\ VmUnchanged

FindFreeFrames ==
    /\ vm.call = "find_free_frames"
    /\ ~vm.done
    /\ vm' = [vm EXCEPT !.done = TRUE,
                        !.ret = find_free_frames_n(vm.memory, vm.args.n)]
    /\ VmUnchanged

SetFrameLock ==
    /\ vm.call = "set_frame_lock"
    /\ ~vm.done
    /\ LET r == set_frame_lock_n(vm.memory, vm.args.frame, vm.args.n,
                                 vm.args.lock)
       IN  vm' = [vm EXCEPT !.done = TRUE, !.memory = r.memory,
                            !.ret = r.ret]
    /\ VmUnchanged

InitPfa == BeforeTasks /\ vm \in PfaCalls
NextPfa == page_frame_allocator_init \/ FindFreeFrames \/ SetFrameLock
SpecPfa == InitPfa /\ [][NextPfa]_vars

\* ----------------------------------- frames and their reference counts
Quiet(p) == vm.on /\ ~vm.panic /\ p \in VmProcs /\ vm.fault[p].stage = "none"

\* task_fork: task_new_address_space(child), clone_user_space_cow.
ForkTables ==
    /\ Quiet(Parent)
    /\ ~vm.forked
    /\ LET V1 == task_new_address_space(vm, Child)
       IN  vm' = IF V1.panic THEN V1
                 ELSE [clone_user_space_cow(V1, Parent, Child, 0)
                         EXCEPT !.forked = TRUE]
    /\ VmUnchanged

AllocStack(p) ==
    /\ Quiet(p)
    /\ ~vm.tables[p][1].present
    /\ vm' = task_alloc_stack(vm, p)
    /\ VmUnchanged

UnmapPage(p, page) ==
    /\ Quiet(p)
    /\ vm.tables[p][page].present
    /\ vm' = paging_unmap_page(vm, p, page)
    /\ VmUnchanged

ExpandHeap ==
    /\ Quiet(Parent)
    /\ find_free_frames(vm) # 0 - 1
    /\ vm' = expand_heap_frame(vm)
    /\ VmUnchanged

ExecSpace(p) ==
    /\ Quiet(p)
    /\ vm' = task_exec_space(vm, p)
    /\ VmUnchanged

InitFrames ==
    /\ BeforeTasks
    /\ vm \in {V \in BootVm : V.wp /\ V.mem[NumFrames][0] = <<0, 0>>}
NextFrames ==
    \/ ForkTables
    \/ \E p \in {Parent, Child} : AllocStack(p)
    \/ \E p \in {Parent, Child}, page \in Pages : UnmapPage(p, page)
    \/ ExpandHeap
    \/ \E p \in {Parent, Child} : ExecSpace(p)
    \/ \E p \in {Parent, Child} : UserStore(p, 0, 0, <<9, 9>>)
    \/ \E p \in {Parent, Child} : PageFault(p)
    \/ \E p \in {Parent, Child} : StoreAgain(p)
SpecFrames == InitFrames /\ [][NextFrames]_vars

\* ------------------------------------------------------ heap calls
\* The pointers malloc returned that were not freed since.
Allocated == {a + sizeof_heap_block : a \in {b \in DOMAIN vm.heap.block :
                                                vm.heap.block[b].used}}

Malloc(size) ==
    /\ vm.call = "heap"
    /\ LET r == malloc(vm.heap, size)
       IN  vm' = [vm EXCEPT !.heap = r.heap, !.ret = r.ptr,
                            !.did = @ \cup {"malloc"}]
    /\ VmUnchanged

Free(ptr) ==
    /\ vm.call = "heap"
    /\ ptr \in Allocated
    /\ vm' = [vm EXCEPT !.heap = free(vm.heap, ptr), !.ret = 0,
                        !.did = @ \cup {"free"}]
    /\ VmUnchanged

HeapExpand ==
    /\ vm.call = "heap"
    /\ vm' = [vm EXCEPT !.heap = expand_heap(vm.heap).heap, !.ret = 0,
                        !.did = @ \cup {"expand_heap"}]
    /\ VmUnchanged

InitHeap ==
    /\ BeforeTasks
    /\ vm = [on |-> FALSE, call |-> "heap", heap |-> heap_init(PAGE_SIZE_4K),
             ret |-> 0, did |-> {}]
NextHeap ==
    \/ \E size \in HeapSizes : Malloc(size)
    \/ \E ptr \in Allocated : Free(ptr)
    \/ HeapExpand
SpecHeap == InitHeap /\ [][NextHeap]_vars

\* ------------------------------------------------------------- boot
\* kernel_main: the calls it makes, in its order, and the subsystem each
\* brings up.
kernel_main ==
    << [call |-> "arch_init", brings |-> "arch"],
       [call |-> "page_frame_allocator_init", brings |-> "pfa"],
       [call |-> "heap_init", brings |-> "heap"],
       [call |-> "fs_init", brings |-> "vfs"],
       [call |-> "smp_init", brings |-> "smp"] >>

\* The subsystem an operation belongs to.
SubsystemOf(op) ==
    CASE op \in {"find_free_frames", "set_frame_lock"} -> "pfa"
      [] op = "malloc" -> "heap"
      [] op = "paging_map_page" -> "arch"

\* malloc with the heap as it is: before heap_init there is no block and
\* malloc goes to expand_heap, which asks for a frame.
MallocOps(up) ==
    IF "heap" \in up THEN {"malloc"} ELSE {"malloc", "find_free_frames"}

\* paging_map_page on the kernel root: where a table of the path is
\* missing it goes to paging_create_table.
MapOps(present) ==
    IF present THEN {"paging_map_page"}
    ELSE {"paging_map_page", "find_free_frames", "set_frame_lock"}

\* The operations of other subsystems an initialisation function invokes:
\* apic_init maps the local APIC, gdt_init and syscall_init (list_create)
\* call malloc; heap_init takes and maps a frame; fs_init calls malloc;
\* allocate_ap_stacks calls malloc, takes frames and maps them.
Invokes(call, info, up) ==
    CASE call = "arch_init" -> MapOps(info.lapic_tables) \cup MallocOps(up)
      [] call = "page_frame_allocator_init" -> {}
      [] call = "heap_init" ->
            {"find_free_frames", "set_frame_lock"} \cup MapOps(FALSE)
      [] call = "fs_init" -> MallocOps(up)
      [] call = "smp_init" ->
            MallocOps(up) \cup {"find_free_frames", "set_frame_lock"}
                \cup MapOps(FALSE)

\* heap_calculate_virtual_start.
heap_calculate_virtual_start(info) ==
    IF info.InitrdBase # 0
    THEN ((info.InitrdBase + info.InitrdSize) \div PAGE_SIZE_4K)
             * PAGE_SIZE_4K + PAGE_SIZE_4K
    ELSE IF info.FBBase # 0
    THEN ((info.FBBase + info.FBSize) \div PAGE_SIZE_4K) * PAGE_SIZE_4K
             + PAGE_SIZE_4K
    ELSE (info.kernel_end \div PAGE_SIZE_4K) * PAGE_SIZE_4K + PAGE_SIZE_4K

BootInfos ==
    {[MMap |-> map, InitrdBase |-> initrd, InitrdSize |-> 5000,
      FBBase |-> fb, FBSize |-> 9000, kernel_end |-> 70000,
      numcores |-> n, lapic_tables |-> lt] :
        map \in MemoryMaps, initrd \in {0, 300000}, fb \in {0, 500000},
        n \in 1..2, lt \in BOOLEAN}

\* One call of kernel_main: the operations it invokes before their
\* subsystem is up are recorded in early, the subsystem it brings up in up;
\* smp_init starts the other cores.
BootCall(i) ==
    /\ vm.call = "boot"
    /\ vm.next = i
    /\ LET c == kernel_main[i]
           ups == {vm.up[j] : j \in 1..Len(vm.up)}
           ops == Invokes(c.call, vm.boot_info, ups)
       IN  vm' = [vm EXCEPT
                    !.next = i + 1,
                    !.up = Append(@, c.brings),
                    !.early = @ \cup {[op |-> op, by |-> c.call] :
                                        op \in {o \in ops :
                                                  SubsystemOf(o) \notin
                                                      ups \cup {c.brings}}},
                    !.aps = IF c.call = "smp_init"
                            THEN vm.boot_info.numcores - 1
                            ELSE @,
                    !.memory = IF c.call = "page_frame_allocator_init"
                               THEN pfa_init(vm.boot_info.MMap, @)
                               ELSE @,
                    !.heap_start =
                        IF c.call = "heap_init"
                        THEN heap_calculate_virtual_start(vm.boot_info)
                        ELSE @]
    /\ VmUnchanged

InitBoot ==
    /\ BeforeTasks
    /\ vm \in {[on |-> FALSE, call |-> "boot", boot_info |-> info, next |-> 1,
                up |-> <<>>, early |-> {}, memory |-> NoMemory,
                heap_start |-> 0, aps |-> 0] : info \in BootInfos}
NextBoot == \E i \in DOMAIN kernel_main : BootCall(i)
SpecBoot == InitBoot /\ [][NextBoot]_vars

\* ------------------------------------------------ page-table calls
FreeTables == Cardinality({f \in 1..NumTableFrames : ~vm.bitmap[f]})

CreateTable ==
    /\ vm.call = "paging"
    /\ ~vm.halted
    /\ FreeTables >= 1
    /\ vm' = IF vm.arch = "x86_64" THEN x64_create_table(vm).T
             ELSE a64_create_table(vm).T
    /\ VmUnchanged

MapPage(v, paddr, flags, ub) ==
    /\ vm.call = "paging"
    /\ ~vm.halted
    /\ FreeTables >= 3
    /\ vm' = map_page(vm, v, paddr, flags, ub)
    /\ VmUnchanged

UnmapTables(v, ub) ==
    /\ vm.call = "paging"
    /\ ~vm.halted
    /\ vm' = unmap_page(vm, v, ub)
    /\ VmUnchanged

InitPaging ==
    /\ BeforeTasks
    /\ vm \in {BootTables(arch) : arch \in {"x86_64", "aarch64"}}
NextPaging ==
    \/ CreateTable
    \/ \E v \in VAddrs, paddr \in DataFrames, flags \in GenericFlags,
          ub \in {"fault", "zero"} : MapPage(v, paddr, flags, ub)
    \/ \E v \in VAddrs, ub \in {"fault", "zero"} : UnmapTables(v, ub)
SpecPaging == InitPaging /\ [][NextPaging]_vars

\* ------------------------------------------- address spaces by level
Spaces == {p \in SpaceProcs : vm.root[p] # 0}

SpaceReady ==
    /\ vm.call = "spaces"
    /\ ~vm.panic
    /\ vm.ops < MaxSpaceOps
    /\ Cardinality(FreeSpaceFrames(vm)) >= 12

\* task_fork of a thread of src: the address space of the child dst.
ForkSpace(src, dst) ==
    /\ SpaceReady
    /\ vm.root[src] # 0
    /\ vm.root[dst] = 0
    /\ LET S1 == space_new_address_space(vm, dst)
       IN  vm' = [clone_level(S1, S1.root[src], S1.root[dst], <<>>, 1)
                    EXCEPT !.ops = @ + 1]
    /\ VmUnchanged

\* task_exec of a thread of p, up to load_elf: the new stack, the old
\* address space freed, the new one made, the image loaded.
ExecSpaces(p) ==
    /\ SpaceReady
    /\ vm.root[p] # 0
    /\ LET S1 == space_alloc_stack(vm, p, UserStack)
           S2 == space_free_address_space(S1, S1.root[p])
           S3 == space_new_address_space(S2, p)
       IN  vm' = [space_load_elf(S3, p, UserCode) EXCEPT !.ops = @ + 1]
    /\ VmUnchanged

\* A store of user code of p at v that the leaf does not allow.
SpaceFault(p, v) ==
    /\ SpaceReady
    /\ vm.root[p] # 0
    /\ Leaf(vm, vm.root[p], v).present
    /\ ~Leaf(vm, vm.root[p], v).write
    /\ vm' = [space_page_fault(vm, p, v) EXCEPT !.ops = @ + 1]
    /\ VmUnchanged

\* expand_heap with heap_end at v.
SpaceExpandHeap(v) ==
    /\ SpaceReady
    /\ ~Leaf(vm, vm.tables, v).present
    /\ vm' = [space_expand_heap(vm, v) EXCEPT !.ops = @ + 1]
    /\ VmUnchanged

InitSpaces == BeforeTasks /\ vm = FirstSpace
NextSpaces ==
    \/ \E src \in SpaceProcs, dst \in SpaceProcs : ForkSpace(src, dst)
    \/ \E p \in SpaceProcs : ExecSpaces(p)
    \/ \E p \in SpaceProcs, v \in {UserCode, UserStack} : SpaceFault(p, v)
    \/ \E v \in {KernelHeap, KernelFar} : SpaceExpandHeap(v)
SpecSpaces == InitSpaces /\ [][NextSpaces]_vars

\* The same without task_exec: forks, page faults and the heap.
NextForks ==
    \/ \E src \in SpaceProcs, dst \in SpaceProcs : ForkSpace(src, dst)
    \/ \E p \in SpaceProcs, v \in {UserCode, UserStack} : SpaceFault(p, v)
    \/ \E v \in {KernelHeap, KernelFar} : SpaceExpandHeap(v)
SpecForks == InitSpaces /\ [][NextForks]_vars

\* --------------------------------------------- threads and stacks
LiveThreads(V) == {t \in 1..Len(V.K.thread) : ~V.K.thread[t].freed}

LiveProcs(V) ==
    {q \in 1..Len(V.K.process) : \A i \in DOMAIN V.gone : V.gone[i] # q}

StackReady ==
    /\ vm.call = "stacks"
    /\ ~vm.halted
    /\ vm.ops < MaxStackOps

\* The calls that allocate a stack are followed where frames are left.
StackRoom ==
    find_free_frames_n(vm.memory, 2 * TASK_DEFAULT_STACK_PAGES) # 0 - 1

StackNewThread(proc) ==
    /\ StackReady
    /\ StackRoom
    /\ Len(vm.K.thread) < MaxStackThreads
    /\ proc \in LiveProcs(vm)
    /\ vm' = [stack_new_thread(vm, proc) EXCEPT !.ops = @ + 1]
    /\ VmUnchanged

StackDeleteThread(t) ==
    /\ StackReady
    /\ t \in LiveThreads(vm)
    /\ vm' = [stack_delete_thread(vm, t) EXCEPT !.ops = @ + 1]
    /\ VmUnchanged

StackFork(t) ==
    /\ StackReady
    /\ t \in LiveThreads(vm)
    /\ Len(vm.K.thread) < MaxStackThreads
    /\ Len(vm.K.process) < MaxStackProcs
    /\ vm' = [stack_fork(vm, t) EXCEPT !.ops = @ + 1]
    /\ VmUnchanged

StackExec(t) ==
    /\ StackReady
    /\ StackRoom
    /\ t \in LiveThreads(vm)
    /\ vm' = [stack_exec(vm, t) EXCEPT !.ops = @ + 1]
    /\ VmUnchanged

\* A page for a table, the heap or a copy: find_free_frames(1) on core c,
\* then set_frame_lock; no lock is held between the two (expand_heap,
\* paging_create_table, handle_page_fault).
PageFind(c) ==
    /\ StackReady
    /\ vm.found[c] = 0 - 1
    /\ find_free_frames_n(vm.memory, 1) # 0 - 1
    /\ vm' = [vm EXCEPT !.found[c] = find_free_frames_n(vm.memory, 1),
                        !.ops = @ + 1]
    /\ VmUnchanged

PageLock(c) ==
    /\ vm.call = "stacks"
    /\ vm.found[c] # 0 - 1
    /\ vm' = [vm EXCEPT
                !.memory = set_frame_lock_n(@, vm.found[c], 1, TRUE).memory,
                !.allocs = Append(@, [addr |-> vm.found[c], n |-> 1,
                                      held |-> TRUE, thread |-> 0]),
                !.found[c] = 0 - 1]
    /\ VmUnchanged

\* set_frame_lock(table, 1, false) of task_free_address_space.
PageFree(i) ==
    /\ StackReady
    /\ i \in DOMAIN vm.allocs
    /\ vm.allocs[i].n = 1
    /\ vm.allocs[i].held
    /\ vm' = [vm EXCEPT
                !.memory = set_frame_lock_n(@, vm.allocs[i].addr, 1,
                                            FALSE).memory,
                !.allocs[i].held = FALSE,
                !.ops = @ + 1]
    /\ VmUnchanged

StackDeleteProcess(proc) ==
    /\ StackReady
    /\ proc \in LiveProcs(vm)
    /\ vm' = [task_delete_process(vm, proc) EXCEPT !.ops = @ + 1]
    /\ VmUnchanged

InitStacks == BeforeTasks /\ vm \in {FirstThread(M) : M \in StackMemories}
NextStacks ==
    \/ \E proc \in 1..MaxStackProcs : StackNewThread(proc)
    \/ \E proc \in 1..MaxStackProcs : StackDeleteProcess(proc)
    \/ \E t \in 1..MaxStackThreads : StackDeleteThread(t)
    \/ \E t \in 1..MaxStackThreads : StackFork(t)
    \/ \E t \in 1..MaxStackThreads : StackExec(t)
    \/ \E c \in Cores : PageFind(c)
    \/ \E c \in Cores : PageLock(c)
    \/ \E i \in 1..(MaxStackOps + 1) : PageFree(i)
SpecStacks == InitStacks /\ [][NextStacks]_vars

\* ------------------------------------------------------ list actions
ListReady ==
    /\ vm.call = "lists"
    /\ vm.ops < MaxListOps

ListInsertTail(value) ==
    /\ ListReady
    /\ vm.list.length < MaxListLen
    /\ vm' = [vm EXCEPT !.list = list_insert_tail(@, value),
                        !.found = 0,
                        !.ops = @ + 1]
    /\ VmUnchanged

ListPop ==
    /\ ListReady
    /\ vm' = [vm EXCEPT !.list = list_pop(@).list,
                        !.found = 0,
                        !.ops = @ + 1]
    /\ VmUnchanged

ListFind(value) ==
    /\ ListReady
    /\ vm' = [vm EXCEPT !.found = list_find(vm.list, value),
                        !.ops = @ + 1]
    /\ VmUnchanged

\* list_delete of the node list_find returned.
ListDelete ==
    /\ ListReady
    /\ vm.found # 0
    /\ vm' = [vm EXCEPT !.list = list_delete(@, vm.found),
                        !.found = 0,
                        !.ops = @ + 1]
    /\ VmUnchanged

InitLists == BeforeTasks /\ vm = FirstList

NextLists ==
    \/ \E value \in ListValues : ListInsertTail(value)
    \/ ListPop
    \/ \E value \in ListValues : ListFind(value)
    \/ ListDelete

SpecLists == InitLists /\ [][NextLists]_vars

InitNames == Boot(name_images) /\ vm = NoVm

NextNames ==
    \/ task_enable_scheduler
    \/ \E c \in Cores : timer_tick(c)
    \/ \E c \in Cores : SwitchLocked(c)
    \/ \E c \in Cores : SyscallExit(c)
    \/ \E c \in Cores : SyscallPush(c)
    \/ \E c \in Cores : PushFinish(c, "none")
    \/ \E c \in Cores : SyscallDefault(c)
    \/ \E c \in Cores : SyscallMethodKernel(c)
    \/ \E c \in Cores : ForkAcquire(c)
    \/ \E c \in Cores : ForkLocked(c)

SpecNames == InitNames /\ [][NextNames]_vars

\* ------------------------------------------------------- properties
Threads == 1..Len(thread)
Live == {t \in Threads : ~thread[t].freed}

\* How often t appears among the nodes reachable from the head of the queue.
Queued(t) ==
    Cardinality({i \in 1..Len(task_queue.items) : task_queue.items[i] = t})

\* The cores whose info->thread is t.
CurrentOn(t) == {c \in Cores : core_bases[c].thread = t}

\* The places of a thread: the cores that run it, its nodes in the ready
\* queue, and its being marked exiting (on the core it called EXIT on).
Places(t) ==
    (IF thread[t].exiting THEN 1 ELSE Cardinality(CurrentOn(t)))
        + Queued(t)

\* Core c ends a pass of task_switch with this step.
SwitchPass(c) == pc[c] = "switch" /\ pc'[c] = "run"

\* Core c gives handler thread h a core for the first time with this step.
FirstRun(c, h) ==
    /\ SwitchPass(c)
    /\ thread[h].req.handler
    /\ running[c] # h
    /\ running'[c] = h

\* Handler thread h was created for a METHOD call of another process.
Remote(h) == thread[h].req.caller # process[thread[h].proc].id

\* A core is inside the METHOD call that created h.
Sending(h) ==
    \E s \in Cores : pc[s] \in {"method_regs", "method_copy"} /\ loc[s].t = h

\* C1: every thread that is not freed is in exactly one place: current on
\* exactly one core, or exactly once in the ready queue, or marked exiting
\* and waiting to be reaped.
C1_ExactlyOnePlace == \A t \in Live : Places(t) = 1

\* C2: the handler thread of a METHOD call to another process is first
\* given a core only after the call has returned, and then its argument
\* list is the sender's list as it was at the call and rdi, rsi hold the
\* ids.
C2_HandlerStartsAfterSend ==
    [][\A c \in Cores : \A h \in Threads :
         (FirstRun(c, h) /\ Remote(h)) =>
            /\ ~Sending(h)
            /\ thread[h].syscall_params.items = thread[h].req.args
            /\ frame'[c].rdi = thread[h].req.interface
            /\ frame'[c].rsi = thread[h].req.method]_vars

\* The ready queue, the process list, the service table or the thread list
\* of a process changes with this step.
Mutation ==
    \/ task_queue' # task_queue
    \/ processes' # processes
    \/ syscall_services' # syscall_services
    \/ \E p \in 1..Len(process) : process'[p].threads # process[p].threads

\* C3: the ready queue, the process list, the service table and the
\* thread lists change only in steps of a core that holds task_lock.
C3_MutationUnderLock ==
    [][Mutation =>
         \E c \in Cores : task_lock = c /\ pc[c] \in {"switch", "fork", "exec"}
                          /\ pc'[c] # pc[c]]_vars

\* Core c is in code that calls malloc or free: syscall_param_push, or a
\* section of task_switch, task_fork, task_exec.
InAllocator(c) == pc[c] \in {"push", "switch", "fork", "exec"}

\* C4: a core that is in the heap or the page-frame allocator holds
\* task_lock, so no two cores are in it together.
C4_AllocatorUnderLock == \A c \in Cores : InAllocator(c) => task_lock = c

C6_ExitReaps ==
    [][\A c \in Cores :
         LET cur == core_bases[c].thread
         IN  (SwitchPass(c) /\ cur > 0 /\ thread[cur].exiting)
             => /\ thread'[cur].freed
                /\ \A i \in 1..Len(task_queue'.items) :
                      task_queue'.items[i] # cur
                /\ \A d \in Cores : core_bases'[d].thread # cur
                /\ running'[c] # cur]_vars

\* Core c returns from a METHOD call that created a handler thread.
MethodReturns(c) == pc[c] = "method_copy" /\ pc'[c] = "run"

\* The METHOD call core c returns from went to another process.
RemoteMethod(c) ==
    /\ MethodReturns(c)
    /\ loc[c].data.pid # process[thread[Caller(c)].proc].id

\* C7: when a METHOD call to another process returns, the caller's
\* argument list is empty and the handler thread's list holds the
\* arguments the caller held at the call, in their order.
C7_MethodMovesArguments ==
    [][\A c \in Cores :
         RemoteMethod(c) =>
            /\ thread'[Caller(c)].syscall_params.items = <<>>
            /\ thread'[loc[c].t].syscall_params.items = loc[c].args]_vars

\* C8: METHOD returns 0 when it has created the handler thread.
C8_MethodReturnsZero ==
    [][\A c \in Cores : MethodReturns(c) => frame'[c].rax = 0]_vars

\* C9: the handler thread of a METHOD call to another process, when the
\* call has returned, starts at the syscall_callback of its process with
\* rdi the interface id, rsi the method id and rdx the caller's pid.
C9_HandlerRegisters ==
    [][\A c \in Cores : \A h \in Threads :
         (FirstRun(c, h) /\ Remote(h) /\ ~Sending(h))
            => /\ frame'[c].rip = process[thread[h].proc].syscall_callback
               /\ frame'[c].rdi = thread[h].req.interface
               /\ frame'[c].rsi = thread[h].req.method
               /\ frame'[c].rdx = thread[h].req.caller]_vars

\* Core c returns from a PUSH of an array whose pointer is KERNEL_BASE or
\* above.
KernelPush(c) ==
    /\ pc[c] = "push"
    /\ pc'[c] = "run"
    /\ loc[c].param.type = SYSCALL_PARAM_ARRAY
    /\ loc[c].param.value >= KERNEL_BASE

\* C10: PUSH of an array whose pointer is in the kernel half returns an
\* error and leaves the caller's argument list as it was.
C10_KernelArrayRejected ==
    [][\A c \in Cores :
         KernelPush(c) =>
            /\ frame'[c].rax < 0
            /\ thread'[Caller(c)].syscall_params
                  = thread[Caller(c)].syscall_params]_vars

\* A thread that holds an argument is back in user code from a PUSH of an
\* array in the kernel half, with an error in rax.
C10_Witness ==
    \E c \in Cores :
        /\ pc[c] = "run"
        /\ loc[c].param = kernel_array
        /\ frame[c].rax < 0
        /\ Caller(c) > 0
        /\ thread[Caller(c)].syscall_params.items # <<>>

\* Core c makes the call named call with this step (and is not halted in it
\* unless the call faults).
Calling(c, call) ==
    /\ pc[c] = "run"
    /\ frame'[c].rip = frame[c].rip + 1
    /\ loc'[c].call = call

\* The record and the buffer handed to a PEEK or POP are memory of the
\* process: the record lies below the kernel base, its array pointer is
\* not NULL and below the kernel base.
UserOut(c) ==
    /\ loc'[c].at < KERNEL_BASE
    /\ loc'[c].param.value # 0
    /\ loc'[c].param.value < KERNEL_BASE

\* The record y read back holds what the record x that was pushed held.
Same(y, x) ==
    /\ y.type = x.type
    /\ y.size = x.size
    /\ IF x.type = SYSCALL_PARAM_ARRAY THEN y.bytes = x.bytes
       ELSE y.value = x.value

\* The record y read back holds what the argument e of a list holds.
SameArg(y, e) ==
    /\ y.type = e.type
    /\ y.size = e.size
    /\ IF e.type = SYSCALL_PARAM_ARRAY THEN y.bytes = e.array
       ELSE y.value = e.value

\* C11: a PUSH of x that finds the argument list of the thread empty and
\* returns 0, followed by POP as the next call of the thread (into a record
\* and a buffer of the process), returns 0, yields a record with the type,
\* the size and the value or the bytes of x, whatever the length of an
\* array, and leaves the list empty.
C11_PushPopRoundTrip ==
    [][\A c \in Cores :
         LET t == Caller(c)
         IN  (/\ Calling(c, "POP")
              /\ UserOut(c)
              /\ thread[t].pushed # NoPushed
              /\ thread[t].pushed.next = frame[c].rip)
             => /\ frame'[c].rax = 0
                /\ Same(loc'[c].out, thread[t].pushed.param)
                /\ thread'[t].syscall_params.items = <<>>]_vars

\* A POP has read back the bytes of the array of 4 KiB that the PUSH before
\* it was given, and the list is empty.
C11_Witness ==
    \E c \in Cores :
        /\ loc[c].call = "POP"
        /\ pc[c] = "run"
        /\ frame[c].rax = 0
        /\ loc[c].out.size = page_array.size
        /\ loc[c].out.bytes = page_array.bytes
        /\ Caller(c) > 0
        /\ thread[Caller(c)].pushed.param = page_array
        /\ thread[Caller(c)].pushed.next + 1 = frame[c].rip
        /\ thread[Caller(c)].syscall_params.items = <<>>

\* Core c returns from a PUSH with this step.
PushReturns(c) == pc[c] = "push" /\ pc'[c] = "run"

\* The last element of a sequence that has one.
Last(items) == items[Len(items)]

\* C12: the argument list is a stack.  A PUSH that returns 0 puts its
\* argument on top; PEEK and POP that return 0 yield the argument on top,
\* the one pushed last; POP takes it off and PEEK leaves the list as it is.
C12_StackOrder ==
    [][\A c \in Cores :
         LET t == Caller(c)
             items == thread[t].syscall_params.items
         IN  /\ (PushReturns(c) /\ frame'[c].rax = 0)
                   => /\ Len(thread'[t].syscall_params.items) = Len(items) + 1
                      /\ SubSeq(thread'[t].syscall_params.items, 1, Len(items))
                            = items
             /\ (/\ Calling(c, "PEEK") \/ Calling(c, "POP")
                 /\ UserOut(c)
                 /\ items # <<>>)
                   => /\ frame'[c].rax = 0
                      /\ SameArg(loc'[c].out, Last(items))
                      /\ thread'[t].syscall_params.items =
                            IF loc'[c].call = "POP"
                            THEN SubSeq(items, 1, Len(items) - 1)
                            ELSE items]_vars

\* The PEEK or POP core c makes with this step cannot complete: the list
\* is empty, or it holds arrays and the buffer named lies in the kernel
\* half.
CannotComplete(c) ==
    LET items == thread[Caller(c)].syscall_params.items
    IN  /\ Calling(c, "PEEK") \/ Calling(c, "POP")
        /\ \/ items = <<>>
           \/ /\ loc'[c].param.value >= KERNEL_BASE
              /\ \A i \in 1..Len(items) : items[i].type = SYSCALL_PARAM_ARRAY

\* C13: a PEEK or POP that cannot complete returns a negative value, the
\* kernel does not fault, and the caller's argument list is as it was.
C13_FailedReadKeepsList ==
    [][\A c \in Cores :
         CannotComplete(c)
            => /\ pc'[c] = "run"
               /\ frame'[c].rax < 0
               /\ thread'[Caller(c)].syscall_params
                     = thread[Caller(c)].syscall_params]_vars

\* C14: every byte range PUSH reads and PEEK or POP writes through a
\* pointer user code gave lies below the kernel base.
C14_NoKernelRange ==
    \A c \in Cores : \A rg \in loc[c].touched : rg.hi <= KERNEL_BASE

\* The processes other than p that have an IPC entry point.
Listeners(p) ==
    {q \in 1..Len(process) : q # p /\ process[q].syscall_callback # 0}

\* The threads this step creates.
Created == (Len(thread) + 1)..Len(thread')

\* C15: SIGNAL creates one handler thread in each other process that has
\* an IPC entry point and none elsewhere, each in the ready queue with an
\* argument list equal to the sender's list at the call, and the sender's
\* list is empty when SIGNAL returns.
C15_SignalFansOut ==
    [][\A c \in Cores :
         LET t == Caller(c)
             p == thread[t].proc
             items == thread[t].syscall_params.items
         IN  Calling(c, "SIGNAL")
                => /\ \A q \in Listeners(p) :
                        Cardinality({h \in Created : thread'[h].proc = q}) = 1
                   /\ \A h \in Created :
                        /\ thread'[h].proc \in Listeners(p)
                        /\ \E i \in 1..Len(task_queue'.items) :
                              task_queue'.items[i] = h
                        /\ thread'[h].syscall_params.items = items
                   /\ thread'[t].syscall_params.items = <<>>]_vars

\* Core c calls the method of the global name service with this step, and
\* the name the method takes from the argument list is one the history
\* follows.
NameCall(c, method) ==
    LET items == thread[Caller(c)].syscall_params.items
    IN  /\ Calling(c, "METHOD")
        /\ loc'[c].data.pid = 0
        /\ loc'[c].data.interface = SYSCALL_GLOBAL_NAME_SERVICE
        /\ loc'[c].data.method = method
        /\ items # <<>>
        /\ Head(items).type = SYSCALL_PARAM_ARRAY
        /\ Head(items).array \in Names

\* The name a call of the global name service takes.
NameOf(c) == Head(thread[Caller(c)].syscall_params.items).array

\* C16: FindDestination of a name returns the id of the process that
\* registered the name last, as long as the name has not been unregistered
\* since, whichever processes registered it before.
C16_FindReturnsRegistrant ==
    [][\A c \in Cores :
         (NameCall(c, 0) /\ registered[NameOf(c)] # 0)
            => frame'[c].rax = registered[NameOf(c)]]_vars

\* C17: UnregisterDestination of a name that returns 0 leaves no row with
\* the name in the service list, and FindDestination of a name that has
\* not been registered since it was unregistered returns -1.
C17_UnregisterRemovesAll ==
    [][\A c \in Cores :
         /\ (NameCall(c, 2) /\ frame'[c].rax = 0)
               => \A i \in 1..Len(syscall_services'.items) :
                     syscall_services'.items[i].name # NameOf(c)
         /\ (NameCall(c, 0) /\ registered[NameOf(c)] = 0)
               => frame'[c].rax = 0 - 1]_vars

\* Core c returns from task_exec with this step: at once when
\* fs_find_node does not find the path, behind the locked section when it
\* does.
ExecReturns(c) ==
    /\ pc'[c] = "run"
    /\ \/ Calling(c, "task_exec")
       \/ pc[c] = "exec"

\* The path names no file, or a file that is not a valid ELF executable.
BadPath(path) ==
    \/ path \notin DOMAIN fs_files
    \/ ~fs_files[path].Magic
    \/ fs_files[path].Type # ELF_EXECUTABLE

\* C18: task_exec of a path that is not found or of a file that is not a
\* valid ELF executable returns an error and leaves the process as it was:
\* its threads alive, their ids and their argument lists unchanged.
C18_FailedExecKeepsProcess ==
    [][\A c \in Cores :
         LET p == thread[Caller(c)].proc
         IN  (ExecReturns(c) /\ BadPath(loc'[c].path))
                => /\ frame'[c].rax < 0
                   /\ process'[p] = process[p]
                   /\ \A t \in Threads :
                         thread[t].proc = p => thread'[t] = thread[t]]_vars

\* C19: task_exec of a path that names a static ELF executable whose
\* segments all load returns 0; the thread is then the only thread of its
\* process, has id 1 and a context that starts at the entry of the image,
\* and the task lock is free.
C19_ExecSucceeds ==
    [][\A c \in Cores :
         LET t == Caller(c)
             p == thread[t].proc
         IN  (ExecReturns(c) /\ loc'[c].path \in Loadable)
                => /\ frame'[c].rax = 0
                   /\ process'[p].threads.items = <<t>>
                   /\ thread'[t].id = 1
                   /\ thread'[t].context.rip = fs_files[loc'[c].path].Entry
                   /\ task_lock' = 0]_vars

\* The page-fault handler runs for the store of process p with this step.
Handles(p) == vm.fault[p].stage = "raised" /\ vm'.fault[p].stage = "retry"

\* The frames process p maps.
Mapped(V, p) ==
    {V.tables[p][page].frame :
        page \in {q \in Pages : V.tables[p][q].present}}

\* C20: after task_fork, the fault of a store of the parent to a page that
\* was writable before the fork leaves the parent with a writable mapping
\* of a frame of its own that holds what the page held, leaves the child's
\* mappings and the contents of its pages as they were, and the reference
\* count of the frame the page had one less; the store, run again, writes
\* its value there and nowhere else.
C20_CowFaultCopies ==
    [][LET page == vm.fault[Parent].page
           old == vm.tables[Parent][page].frame
           new == vm'.tables[Parent][page].frame
       IN  /\ (/\ Handles(Parent)
               /\ vm.forked
               /\ vm.tables[Parent][page].present
               /\ vm.tables[Parent][page].cow)
                 => /\ ~vm'.panic
                    /\ vm'.tables[Parent][page].present
                    /\ vm'.tables[Parent][page].write
                    /\ ~vm'.tables[Parent][page].cow
                    /\ new # old
                    /\ new \notin Mapped(vm', Child)
                    /\ vm'.mem[new] = vm.mem[old]
                    /\ vm'.tables[Child] = vm.tables[Child]
                    /\ \A f \in Mapped(vm, Child) : vm'.mem[f] = vm.mem[f]
                    /\ vm'.refcount[old] = vm.refcount[old] - 1
           /\ (/\ vm.on
               /\ vm.fault[Parent].stage = "retry"
               /\ vm'.fault[Parent].stage = "none")
                 => /\ vm'.mem[old] =
                          [vm.mem[old] EXCEPT ![vm.fault[Parent].off] =
                                                  vm.fault[Parent].val]
                    /\ \A f \in Frames \ {old} : vm'.mem[f] = vm.mem[f]]_vars

\* task_switch reaps the last thread of the forked process with this step.
ChildReaped ==
    /\ vm.on
    /\ vm.forked
    /\ \E t \in Threads :
          /\ thread[t].proc = Child
          /\ ~thread[t].freed
          /\ thread'[t].freed
          /\ process[Child].threads.items = <<t>>

\* C21: task_fork followed by the exit of the only thread of the child
\* restores the resources: when the thread has been reaped the child is no
\* longer a process and maps nothing, every frame has the reference count
\* and the bitmap bit it had before the fork, and every user page of the
\* parent translates to the frame it had, with the contents it had.
C21_ForkExitRestores ==
    [][ChildReaped
         => /\ \A i \in DOMAIN processes'.items : processes'.items[i] # Child
            /\ Mapped(vm', Child) = {}
            /\ vm'.refcount = vm.prefork.refcount
            /\ vm'.bitmap = vm.prefork.bitmap
            /\ \A page \in Pages :
                  LET now == vm'.tables[Parent][page]
                      was == vm.prefork.tables[page]
                  IN  /\ now.present = was.present
                      /\ was.present
                            => /\ now.frame = was.frame
                               /\ vm'.mem[now.frame] =
                                      vm.prefork.mem[was.frame]]_vars

\* The frames of the allocator M, counted from its base.
PfaFrames(M) == 0..(M.length \div PAGE_SIZE_4K - 1)

\* The frames at which a run of n free frames starts.
FreeRuns(M, n) ==
    {k \in PfaFrames(M) :
        \A j \in k..(k + n - 1) : j \in PfaFrames(M) /\ ~M.bitmap[j]}

Lowest(S) == CHOOSE k \in S : \A j \in S : k <= j

Returned(call) == vm.call = call /\ vm.done

\* C22: find_free_frames(n) returns the address of the lowest run of n
\* free frames of [base, base + length), and -1 exactly when there is none.
C22_FindsLowestRun ==
    Returned("find_free_frames")
        => LET runs == FreeRuns(vm.memory, vm.args.n)
           IN  vm.ret = IF runs = {} THEN 0 - 1
                        ELSE vm.memory.base + Lowest(runs) * PAGE_SIZE_4K

\* The bit of the frame that holds the address, and whether the n frames
\* from it lie in [base, base + length).
StartBit == (vm.args.frame - vm.old.base) \div PAGE_SIZE_4K
InRange ==
    /\ vm.args.frame >= vm.old.base
    /\ vm.args.frame < vm.old.base + vm.old.length
    /\ StartBit + vm.args.n <= vm.old.length \div PAGE_SIZE_4K

\* C23: set_frame_lock(frame, n, lock) of a frame in range gives the n bits
\* from the bit of the frame the value lock and leaves every other bit.
C23_LocksExactlyN ==
    (Returned("set_frame_lock") /\ InRange)
        => vm.memory.bitmap =
              fill_bitmap_bitwise(vm.old.bitmap, StartBit, vm.args.n,
                                  vm.args.lock)

\* C24: set_frame_lock of a frame below base, at or after base + length,
\* or with n frames that reach past the end fails and changes no bit; on
\* the last frame of the range it succeeds.
C24_HalfOpenRange ==
    Returned("set_frame_lock")
        => /\ ~InRange => (vm.ret = 0 - 1 /\ vm.memory = vm.old)
           /\ (InRange /\ StartBit = NumPfaFrames - 1) => vm.ret # 0 - 1

\* C25: with one region of conventional memory of 256 pages at 0x1000,
\* page_frame_allocator_init leaves a bitmap of 32 bytes with the bits 0 to 7
\* set and every other bit clear.
C25_BootBitmap ==
    (Returned("page_frame_allocator_init") /\ vm.boot_info = OneRegionMap)
        => /\ (vm.memory.length \div PAGE_SIZE_4K) \div 8 = 32
           /\ \A i \in 0..255 : vm.memory.bitmap[i] = (i <= 7)

\* C26: between the operations of the kernel (creating a table, mapping
\* and unmapping, expanding the heap, allocating a stack, fork, a
\* copy-on-write fault, freeing an address space) the bitmap bit of every
\* frame is set exactly when its reference count is above zero.
C26_BitIffReferenced ==
    (vm.on /\ ~vm.panic)
        => \A f \in Frames : vm.bitmap[f] <=> vm.refcount[f] > 0

\* The blocks from block a on by their next pointers, at most n of them.
RECURSIVE Chain(_, _, _)
Chain(Hp, a, n) ==
    IF a = 0 \/ n = 0 \/ a \notin DOMAIN Hp.block
    THEN <<>>
    ELSE <<a>> \o Chain(Hp, Hp.block[a].next, n - 1)

BlockEnd(Hp, a) == a + sizeof_heap_block + Hp.block[a].size

WellFormed(Hp) ==
    LET chain == Chain(Hp, Hp.first_block, Cardinality(DOMAIN Hp.block) + 1)
        n == Len(chain)
    IN  /\ n >= 1
        /\ {chain[i] : i \in 1..n} = DOMAIN Hp.block
        /\ n = Cardinality(DOMAIN Hp.block)
        /\ chain[1] = Hp.heap_start
        /\ Hp.block[chain[1]].previous = 0
        /\ chain[n] = Hp.last_block
        /\ Hp.block[chain[n]].next = 0
        /\ BlockEnd(Hp, chain[n]) = Hp.heap_end
        /\ \A i \in 1..(n - 1) :
              /\ Hp.block[chain[i + 1]].previous = chain[i]
              /\ BlockEnd(Hp, chain[i]) = chain[i + 1]
              /\ Hp.block[chain[i]].used \/ Hp.block[chain[i + 1]].used

\* C27: after any sequence of malloc, free and expand_heap the blocks are
\* the chain from first_block by next, previous is the inverse of next,
\* last_block ends the chain, the blocks tile [heap_start, heap_end) and no
\* two free blocks are neighbours.
C27_HeapWellFormed == vm.call = "heap" => WellFormed(vm.heap)

\* A heap of more than one page after calls of all three, with a free
\* block between used ones.
C27_Witness ==
    /\ vm.call = "heap"
    /\ vm.did = {"malloc", "free", "expand_heap"}
    /\ vm.heap.heap_end > vm.heap.heap_start + PAGE_SIZE_4K
    /\ \E a \in DOMAIN vm.heap.block :
          /\ ~vm.heap.block[a].used
          /\ vm.heap.block[a].previous # 0
          /\ vm.heap.block[a].next # 0

\* C28: a core that runs no thread (from its start to its first switch, or
\* after task_switch reaped its thread and found nothing to run) has
\* info->thread NULL and returns to the idle frame.
C28_IdleHasNoThread ==
    \A c \in Cores :
        running[c] = 0
            => /\ core_bases[c].thread = 0
               /\ pc[c] = "run" => frame[c] = idle_frame

\* The order of the specification.
BootOrder == <<"pfa", "heap", "vfs", "arch", "smp", "scheduler">>

\* C29: the subsystems come up in the order page-frame allocator, heap,
\* VFS, architecture layer, SMP, scheduler, all of them by the end of
\* kernel_main, and no operation of a subsystem is invoked before the
\* subsystem is up.
C29_BootOrder ==
    vm.call = "boot"
        => /\ \A i \in 1..Len(vm.up) : vm.up[i] = BootOrder[i]
           /\ vm.early = {}
           /\ vm.next > Len(kernel_main) => vm.up = BootOrder

\* The walk of the tables of T at v: the tables it passes and the leaf.
Walk(T, v) ==
    LET e1 == T.mem[Root][v[1]]
        e2 == T.mem[e1.address][v[2]]
        e3 == T.mem[e2.address][v[3]]
        e4 == T.mem[e3.address][v[4]]
    IN  IF e1.present /\ e2.present /\ e3.present /\ e4.present
        THEN [mapped |-> TRUE, frame |-> e4.address,
              attr |-> e4.attr \ {"table_block"},
              path |-> <<e1.address, e2.address, e3.address>>]
        ELSE [mapped |-> FALSE, frame |-> 0, attr |-> {}, path |-> <<>>]

Translation(T, v) ==
    [mapped |-> Walk(T, v).mapped, frame |-> Walk(T, v).frame,
     attr |-> Walk(T, v).attr]

CreateOK(T) ==
    LET r == IF T.arch = "x86_64" THEN x64_create_table(T)
             ELSE a64_create_table(T)
    IN  /\ r.table # 0
        /\ ~T.bitmap[r.table]
        /\ r.T.bitmap[r.table]
        /\ r.T.mem[r.table] = [i \in Index |-> NoEntry]

MapOK(T, v, paddr, flags, ub) ==
    LET T2 == map_page(T, v, paddr, flags, ub)
        w == Walk(T2, v)
    IN  ~T2.halted
            => /\ w.mapped
               /\ w.frame = paddr
               /\ w.attr = IF T.arch = "x86_64" THEN x64_flags(flags)
                           ELSE a64_flags(flags)
               /\ \A i \in 1..3 :
                     /\ w.path[i] \notin {0, Root} \cup DataFrames
                     /\ T2.bitmap[w.path[i]]
                     /\ \A j \in 1..3 : i # j => w.path[i] # w.path[j]
               /\ \A u \in VAddrs \ {v} :
                     Translation(T2, u) = Translation(T, u)

\* C30: on both backends, with a free frame create_table returns a locked,
\* zeroed frame; after map(root, v, p, flags) the walk at v reaches a
\* present leaf with the frame of p and the translated flags through
\* tables of their own, and every other address translates as before; after
\* unmap(root, v) the walk at v finds nothing mapped.
C30_MapWalks ==
    (vm.call = "paging" /\ ~vm.halted)
        => /\ FreeTables >= 1 => CreateOK(vm)
           /\ FreeTables >= 3
                => \A v \in VAddrs, paddr \in DataFrames,
                      flags \in GenericFlags, ub \in {"fault", "zero"} :
                        MapOK(vm, v, paddr, flags, ub)
           /\ \A v \in VAddrs, ub \in {"fault", "zero"} :
                 LET T2 == unmap_page(vm, v, ub)
                 IN  ~T2.halted => ~Walk(T2, v).mapped

\* The leaves of user space of the address space of p: the addresses below
\* the kernel base whose leaf is present and open to user code.
UserLeaves(S, p) ==
    {v \in AllAddrs : /\ ~KernelHalf(v)
                      /\ Leaf(S, S.root[p], v).present
                      /\ Leaf(S, S.root[p], v).user}

\* No frame under user leaves of two address spaces can be written through
\* either of them.
Isolated(S) ==
    \A p \in SpaceProcs, q \in SpaceProcs :
        (p # q /\ S.root[p] # 0 /\ S.root[q] # 0)
            => \A u \in UserLeaves(S, p), w \in UserLeaves(S, q) :
                  Leaf(S, S.root[p], u).frame = Leaf(S, S.root[q], w).frame
                      => /\ ~Leaf(S, S.root[p], u).write
                         /\ ~Leaf(S, S.root[q], w).write

\* The address space of dst after task_fork of a thread of src.
Forked(S, src, dst) ==
    LET S1 == space_new_address_space(S, dst)
    IN  clone_level(S1, S1.root[src], S1.root[dst], <<>>, 1)

\* What task_fork makes of a leaf.
Shared(entry) ==
    IF entry.write THEN [entry EXCEPT !.write = FALSE, !.cow = TRUE]
    ELSE entry

ForkShares(S, src, dst) ==
    LET T == Forked(S, src, dst)
    IN  /\ \A v \in UserLeaves(S, src) :
              /\ Leaf(T, T.root[src], v) = Shared(Leaf(S, S.root[src], v))
              /\ Leaf(T, T.root[dst], v) = Shared(Leaf(S, S.root[src], v))
        /\ \A f \in SpaceFrames :
              (\E v \in UserLeaves(S, src) : Leaf(S, S.root[src], v).frame = f)
                  => T.refcount[f] = S.refcount[f] + Cardinality(
                        {v \in AllAddrs :
                            /\ Leaf(S, S.root[src], v).present
                            /\ Leaf(S, S.root[src], v).frame = f})

KernelAddrs == {v \in AllAddrs : KernelHalf(v)}

KernelTables(S) ==
    LET e1 == S.mem[S.tables][511]
        e2 == S.mem[e1.frame][511]
    IN  {e1.frame, e2.frame}
        \cup {S.mem[e2.frame][i].frame :
                i \in {j \in Idx : j >= 448 /\ S.mem[e2.frame][j].present}}

KernelFrames(S) ==
    {Leaf(S, S.tables, v).frame :
        v \in {u \in KernelAddrs : Leaf(S, S.tables, u).present}}

\* T differs from S in nothing of the kernel half.
KernelUntouched(S, T) ==
    /\ \A v \in KernelAddrs : Leaf(T, S.tables, v) = Leaf(S, S.tables, v)
    /\ \A f \in KernelTables(S) : T.bitmap[f] = S.bitmap[f]
    /\ \A f \in KernelFrames(S) :
          T.bitmap[f] = S.bitmap[f] /\ T.refcount[f] >= S.refcount[f]

\* C32: clone_user_space_cow and task_free_address_space visit only leaves
\* below the kernel base: they change no flags of a kernel leaf, leave the
\* root entry paging_clone_higher_half installed, lower no reference count
\* of a frame the kernel maps and unlock no page table shared with the
\* tables of the kernel.
C32_WalksSpareKernel ==
    (vm.call = "spaces" /\ SpaceReady)
        => /\ \A src \in SpaceProcs, dst \in SpaceProcs :
                 (vm.root[src] # 0 /\ vm.root[dst] = 0)
                     => LET S1 == space_new_address_space(vm, dst)
                            T == Forked(vm, src, dst)
                        IN  /\ KernelUntouched(vm, T)
                            /\ T.mem[T.root[dst]][511]
                                  = S1.mem[S1.root[dst]][511]
           /\ \A p \in SpaceProcs :
                 vm.root[p] # 0
                     => KernelUntouched(
                            vm, space_free_address_space(vm, vm.root[p]))

\* C33: at every moment after the address space of a process was made,
\* every mapping of the kernel half in the global tables of the kernel is
\* in the address space of the process with the same frame and flags, those
\* added later (a heap page, a mapping that needs a new page table) too.
C33_KernelHalfShared ==
    vm.call = "spaces"
        => \A p \in SpaceProcs, v \in KernelAddrs :
              (vm.root[p] # 0 /\ Leaf(vm, vm.tables, v).present)
                  => Leaf(vm, vm.root[p], v) = Leaf(vm, vm.tables, v)

\* The leaf entries, as <<page table, index>>, that map frame f in the
\* tables of the kernel or of a process.
LeafSlots(S, f) ==
    {<<S.mem[S.mem[S.mem[x[1]][x[2][1]].frame][x[2][2]].frame][x[2][3]].frame,
       x[2][4]>> :
        x \in {y \in ({S.tables} \cup {S.root[p] : p \in SpaceProcs})
                        \X AllAddrs :
                 /\ y[1] # 0
                 /\ Leaf(S, y[1], y[2]).present
                 /\ Leaf(S, y[1], y[2]).frame = f}}

\* paging_map_page of a frame found free and locked, at v of process p.
Remapped(S, p, v) ==
    LET new == space_find_free_frame(S)
    IN  space_map_page(set_frame_lock(S, new, TRUE), S.root[p], v, new,
                       P_USER_WRITE)

\* C34: paging_map_page on an address whose leaf is present drops the
\* reference of the frame mapped there before it installs the new one, so
\* that the count of the old frame is never above the number of leaves that
\* still map it.
C34_RemapDropsOld ==
    (vm.call = "spaces" /\ SpaceReady)
        => \A p \in SpaceProcs, v \in {UserCode, UserStack} :
              (vm.root[p] # 0 /\ Leaf(vm, vm.root[p], v).present
               /\ vm.refcount[Leaf(vm, vm.root[p], v).frame] > 0)
                  => LET old == Leaf(vm, vm.root[p], v).frame
                         T == Remapped(vm, p, v)
                     IN  /\ T.refcount[old] = vm.refcount[old] - 1
                         /\ vm.refcount[old] <= Cardinality(LeafSlots(vm, old))
                              => T.refcount[old]
                                    <= Cardinality(LeafSlots(T, old))

\* The frames behind the stack of thread t.
StackFrames(V, t) ==
    {V.stack[t].frames + k * PAGE_SIZE_4K :
        k \in 0..(TASK_DEFAULT_STACK_PAGES - 1)}

\* C35: task_delete_thread(t) takes t out of the ready queue and out of the
\* thread list of its process and releases the frames behind the stack of
\* t: after the call their bits are clear (where no other thread shares
\* them) and find_free_frames can return them again.
C35_DeleteFreesStack ==
    vm.call = "stacks"
        => \A t \in LiveThreads(vm) :
              LET T == stack_delete_thread(vm, t)
              IN  /\ list_find(T.K.task_queue, t) = 0
                  /\ list_find(T.K.process[vm.K.thread[t].proc].threads, t) = 0
                  /\ (\A u \in LiveThreads(vm) \ {t} :
                          vm.stack[u].frames # vm.stack[t].frames)
                        => \A a \in StackFrames(vm, t) :
                              ~T.memory.bitmap[BitOf(T.memory, a)]

\* The processes below proc in the tree, by their parent fields.
RECURSIVE Ancestors(_, _, _)
Ancestors(V, q, n) ==
    IF n = 0 \/ V.K.process[q].parent = 0
    THEN {}
    ELSE {V.K.process[q].parent}
         \cup Ancestors(V, V.K.process[q].parent, n - 1)

Descendants(V, proc) ==
    {q \in LiveProcs(V) : proc \in Ancestors(V, q, MaxStackProcs)}

Position(seq, x) == CHOOSE i \in DOMAIN seq : seq[i] = x

\* C36: every process in the children list of a process has that process
\* as its parent; after task_delete_process(P) returns, P and everything
\* below it are in neither the process list nor a children list of a
\* process that is left, and each of them was freed before P.
C36_ProcessTree ==
    (vm.call = "stacks" /\ ~vm.halted)
        => /\ \A q \in LiveProcs(vm) :
                 \A i \in DOMAIN vm.K.process[q].children.items :
                    vm.K.process[vm.K.process[q].children.items[i]].parent = q
           /\ \A P \in LiveProcs(vm) :
                 LET T == task_delete_process(vm, P)
                     dead == {P} \cup Descendants(vm, P)
                 IN  ~T.halted
                       => /\ \A d \in dead :
                                /\ list_find(T.processes, d) = 0
                                /\ \A q \in LiveProcs(T) :
                                      list_find(T.K.process[q].children, d) = 0
                          /\ \A d \in Descendants(vm, P) :
                                /\ \E i \in DOMAIN T.gone : T.gone[i] = d
                                /\ Position(T.gone, d) < Position(T.gone, P)

\* The frames of an allocation, as bits of the bitmap.
AllocBits(V, i) ==
    {BitOf(V.memory, V.allocs[i].addr) + k : k \in 0..(V.allocs[i].n - 1)}

HeldAllocs(V) == {i \in DOMAIN V.allocs : V.allocs[i].held}

\* C37: no frame has two owners: the frames of two allocations that are
\* both held do not overlap, and every frame of a held allocation is marked
\* used in the bitmap (find_free_frames cannot return it), whatever was
\* locked or unlocked for other owners in between.
C37_OneOwner ==
    vm.call = "stacks"
        => /\ \A i, j \in HeldAllocs(vm) :
                 i # j => AllocBits(vm, i) \cap AllocBits(vm, j) = {}
           /\ \A i \in HeldAllocs(vm) :
                 \A b \in AllocBits(vm, i) : vm.memory.bitmap[b]

\* C38: the current thread of no core is a freed thread: neither task_exec
\* (which deletes the other threads of the process) nor any other path frees
\* a thread while it is info->thread of a core, so no task_switch saves a
\* context into a freed thread, enqueues it or reads its fields.
C38_CurrentNotFreed ==
    \A c \in Cores : Caller(c) > 0 => ~thread[Caller(c)].freed

\* The user stack range of a thread: the pages from its stack address up.
StackRange(V, t) ==
    {V.stack[t].vstack + k * PAGE_SIZE_4K :
        k \in 0..(TASK_DEFAULT_STACK_PAGES - 1)}

ThreadsOf(V, proc) == {t \in LiveThreads(V) : V.K.thread[t].proc = proc}

\* C39: in one process live threads have pairwise distinct thread ids and
\* pairwise disjoint user stack ranges, after any sequence of
\* task_new_thread, task_fork (from a thread of any id) and task_exec.
C39_DistinctIdsAndStacks ==
    vm.call = "stacks"
        => \A proc \in LiveProcs(vm) :
              \A t, u \in ThreadsOf(vm, proc) :
                 t # u => /\ vm.K.thread[t].id # vm.K.thread[u].id
                          /\ StackRange(vm, t) \cap StackRange(vm, u) = {}

\* C40: the bookkeeping of a list is exact after any sequence of
\* insert_tail, pop, find and delete: length is the number of nodes
\* reachable from head, tail is the last node reachable from head, and is
\* NULL, as head is, exactly when no node is left.
C40_ListExact ==
    vm.call = "lists"
        => /\ vm.list.length = Len(vm.list.items)
           /\ vm.list.tail_ok

====
